---- MODULE Spec2Model ----
(***************************************************************************)
(* Model of trackpoint_3d.cpp: the concurrent engine of main().            *)
(*                                                                         *)
(* Two contexts run after setup: kbd_thread (the Modifier Tracker) and the *)
(* foreground loop of main (the Motion Translator), followed by main's     *)
(* teardown.  Every access to memory or to a device that the other context *)
(* can observe is a step of its own; purely local computation is folded    *)
(* into the step that precedes it.                                         *)
(***************************************************************************)
EXTENDS Integers, Sequences, FiniteSets, TLC

(***************************************************************************)
(* Bounds of the model.                                                    *)
(***************************************************************************)
MaxTpFrames == 1
MaxKbdEvents == 3

(***************************************************************************)
(* Program constants.                                                      *)
(***************************************************************************)
AXIS_MIN == -5000
AXIS_MAX == 5000
DEADZONE == 2
DEFAULT_GAIN == 60
DEFAULT_HOTKEY == "KEY_F8"

\* int is 32 bits wide on every target of the program.
IntMax == 2147483647
IntMin == -IntMax - 1

ALL_AXES == <<"ABS_X", "ABS_Y", "ABS_Z", "ABS_RX", "ABS_RY", "ABS_RZ">>

AxisSet == {ALL_AXES[i] : i \in 1..6}

\* enum class Mode
Modes == {"ORBIT", "TILT", "PAN"}

Abs(v) == IF v < 0 THEN -v ELSE v

Sign(v) == IF v < 0 THEN -1 ELSE IF v > 0 THEN 1 ELSE 0

(***************************************************************************)
(* struct input_event, as far as the program uses it.                      *)
(***************************************************************************)
Event(t, c, v) == [type |-> t, code |-> c, value |-> v]

SynReport == Event("EV_SYN", "SYN_REPORT", 0)

NoEvent == Event("NONE", "NONE", 0)

(***************************************************************************)
(* emit(fd, type, code, value, syn): the write() calls it makes, in order. *)
(***************************************************************************)
emit(type, code, value, syn) ==
    <<Event(type, code, value)>> \o (IF syn THEN <<SynReport>> ELSE <<>>)

\* int clamp(int v)
clamp(v) ==
    LET lo == IF AXIS_MAX < v THEN AXIS_MAX ELSE v
    IN  IF AXIS_MIN > lo THEN AXIS_MIN ELSE lo

(***************************************************************************)
(* zero_all_axes(ufd): six emit() calls without sync, then                 *)
(* emit(ufd, EV_SYN, SYN_REPORT, 0, true).                                 *)
(***************************************************************************)
RECURSIVE ZeroAxesFrom(_)
ZeroAxesFrom(i) ==
    IF i > 6 THEN <<>>
    ELSE emit("EV_ABS", ALL_AXES[i], 0, FALSE) \o ZeroAxesFrom(i + 1)

zero_all_axes == ZeroAxesFrom(1) \o emit("EV_SYN", "SYN_REPORT", 0, TRUE)


(***************************************************************************)
(* Integer conversions of the translator.                                  *)
(*                                                                         *)
(* static_cast<int>(d * gain): the product is formed in double, which is   *)
(* exact for every int d and whole gain below 2^53, and then converted.    *)
(* The conversion of a value outside [IntMin, IntMax] is undefined:        *)
(* the x86 conversion instruction yields IntMin, the AArch64 one           *)
(* saturates.  A product of exactly -2^31 converts to IntMin.  The model's *)
(* gains are whole numbers.                                                *)
(***************************************************************************)
\* a * g <= IntMax, for a, g > 0, without forming a product above IntMax
MulFits(a, g) == a <= IntMax \div g

\* the values static_cast<int>(d * g) can take
ToIntOutcomes(d, g) ==
    IF d = 0 \/ g = 0 THEN {0}
    ELSE IF MulFits(Abs(d), Abs(g)) THEN {d * g}
    ELSE IF Sign(d) * Sign(g) < 0 THEN {IntMin}
    ELSE {IntMin, IntMax}

\* the values the int expression -v can take: defined except for IntMin,
\* where it wraps to IntMin unless the optimiser folds it into the comparison
NegOutcomes(v) == IF v = IntMin THEN {IntMin, IntMax} ELSE {-v}

\* static_cast<int>(v * scale) for the diagonal scale
\* max(|dx|,|dy|) / ((|dx|+|dy|) / sqrt(2)): the largest k with
\* k * (|dx|+|dy|) <= |v| * max * sqrt(2), with the sign of v
DiagScaled(v, dx, dy) ==
    LET m == IF Abs(dx) > Abs(dy) THEN Abs(dx) ELSE Abs(dy)
        s == Abs(dx) + Abs(dy)
        k == CHOOSE k \in 0..(2 * Abs(v)) :
                 /\ (k * s) * (k * s) <= 2 * (Abs(v) * m) * (Abs(v) * m)
                 /\ ((k + 1) * s) * ((k + 1) * s) > 2 * (Abs(v) * m) * (Abs(v) * m)
    IN  Sign(v) * k

\* Deadzone with the comparison <= 0 in place of < DEADZONE
Deadzone_ZeroOnly(d) == IF Abs(d) <= 0 THEN 0 ELSE d

\* if (std::abs(d) < DEADZONE) d = 0;
Deadzone(d) == IF Abs(d) < DEADZONE THEN 0 ELSE d

\* EventDelta with the value of the event taken for both deltas, whatever
\* its code
EventDelta_CodeIgnored(e) ==
    <<Deadzone(e.value), Deadzone(e.value)>>

\* dx, dy of one input_event: lines 697-709
EventDelta(e) ==
    LET dx0 == Deadzone(IF e.code = "REL_X" THEN e.value ELSE 0)
        dy0 == Deadzone(IF e.code = "REL_Y" THEN e.value ELSE 0)
    IN  IF dx0 # 0 /\ dy0 # 0
        THEN <<DiagScaled(dx0, dx0, dy0), DiagScaled(dy0, dx0, dy0)>>
        ELSE <<dx0, dy0>>

\* ResolveMode with ctrl tested before shift
ResolveMode_CtrlFirst(sh, ct) == IF ct THEN "PAN" ELSE IF sh THEN "TILT" ELSE "ORBIT"

\* Mode mode = ORBIT; if (shift) mode = TILT; else if (ctrl) mode = PAN;
ResolveMode(sh, ct) == IF sh THEN "TILT" ELSE IF ct THEN "PAN" ELSE "ORBIT"

\* shift / ctrl of the snapshot taken under keys_mtx
ShiftDown(keys) == "KEY_LEFTSHIFT" \in keys \/ "KEY_RIGHTSHIFT" \in keys

CtrlDown(keys) == "KEY_LEFTCTRL" \in keys \/ "KEY_RIGHTCTRL" \in keys

\* ModeWrites with the two axes of ORBIT in the other order
ModeWrites_OrbitSwapped(m, a, b) ==
    IF m = "TILT" THEN emit("EV_ABS", "ABS_RY", clamp(a), FALSE) \o emit("EV_ABS", "ABS_Y", clamp(b), TRUE)
    ELSE IF m = "PAN" THEN emit("EV_ABS", "ABS_X", clamp(a), FALSE) \o emit("EV_ABS", "ABS_Z", clamp(b), TRUE)
    ELSE emit("EV_ABS", "ABS_RX", clamp(b), FALSE) \o emit("EV_ABS", "ABS_RZ", clamp(a), TRUE)

\* the two emit() calls of a mode, given the values of their arguments
ModeWrites(m, a, b) ==
    IF m = "TILT" THEN emit("EV_ABS", "ABS_RY", clamp(a), FALSE) \o emit("EV_ABS", "ABS_Y", clamp(b), TRUE)
    ELSE IF m = "PAN" THEN emit("EV_ABS", "ABS_X", clamp(a), FALSE) \o emit("EV_ABS", "ABS_Z", clamp(b), TRUE)
    ELSE emit("EV_ABS", "ABS_RZ", clamp(a), FALSE) \o emit("EV_ABS", "ABS_RX", clamp(b), TRUE)

\* the values the first argument can take: sx in PAN, -sx otherwise
FirstArgOutcomes(m, x) == IF m = "PAN" THEN {x} ELSE NegOutcomes(x)

\* the write sequences the axis mapping of lines 733-742 can produce
AxisMapping(m, x, y) ==
    {ModeWrites(m, a, b) : a \in FirstArgOutcomes(m, x), b \in NegOutcomes(y)}

(***************************************************************************)
(* The inputs of the model.                                                *)
(***************************************************************************)
\* args.gain: 1 and the default
Gains == {1, DEFAULT_GAIN}

\* the modifier key codes of lines 717-718
ModifierKeys == {"KEY_LEFTSHIFT", "KEY_RIGHTSHIFT", "KEY_LEFTCTRL", "KEY_RIGHTCTRL"}

\* the events libevdev_next_event(kbd_dev) returns with rc == 0: the hotkey
\* with value 0 (release), 1 (press), 2 (repeat), the modifier keys pressed
\* and released, and an event of another type
KbdEvents ==
    {Event("EV_KEY", DEFAULT_HOTKEY, v) : v \in 0..2}
    \cup {Event("EV_KEY", c, v) : c \in ModifierKeys, v \in 0..1}
    \cup {Event("EV_MSC", "MSC_SCAN", 1)}

\* the motion reports of the trackpoint, as <<dx, dy>>; the last one takes
\* the product with the default gain out of the range of int
TpFrames == {<<100, 0>>, <<3, 3>>, <<1, 1>>, <<-3, -100>>, <<0, 0>>, <<1073741824, 0>>}

\* One report of the trackpoint as the events libevdev_next_event(tp_dev)
\* returns for it: one event per non-zero component (a struct input_event
\* carries one code), closed by SYN_REPORT.  A report with no motion is a
\* wheel report.
FrameEvents(mx, my) ==
    (IF mx # 0 THEN <<Event("EV_REL", "REL_X", mx)>> ELSE <<>>)
    \o (IF my # 0 THEN <<Event("EV_REL", "REL_Y", my)>> ELSE <<>>)
    \o (IF mx = 0 /\ my = 0 THEN <<Event("EV_REL", "REL_WHEEL", 1)>> ELSE <<>>)
    \o <<SynReport>>

(***************************************************************************)
(* Strings.  A std::string is the sequence of its characters, each a       *)
(* one-character string, so that substring search, suffix comparison,      *)
(* case folding and ordering are computed as the code computes them.       *)
(***************************************************************************)
UpperCase ==
    <<"A", "B", "C", "D", "E", "F", "G", "H", "I", "J", "K", "L", "M",
      "N", "O", "P", "Q", "R", "S", "T", "U", "V", "W", "X", "Y", "Z">>

LowerCase ==
    <<"a", "b", "c", "d", "e", "f", "g", "h", "i", "j", "k", "l", "m",
      "n", "o", "p", "q", "r", "s", "t", "u", "v", "w", "x", "y", "z">>

\* ::tolower of one character
LowerChar(c) ==
    IF \E i \in 1..26 : UpperCase[i] = c
    THEN LowerCase[CHOOSE i \in 1..26 : UpperCase[i] = c]
    ELSE c

\* to_lower, lines 279-282
to_lower(s) == [i \in 1..Len(s) |-> LowerChar(s[i])]

\* hay.find(needle) != std::string::npos
Contains(hay, needle) ==
    \E i \in 1..(Len(hay) - Len(needle) + 1) :
        SubSeq(hay, i, i + Len(needle) - 1) = needle

\* contains_ci, lines 287-291
contains_ci(hay, needle) == Contains(to_lower(hay), to_lower(needle))

\* equals_ci, line 283
equals_ci(a, b) == to_lower(a) = to_lower(b)

\* base.size() >= suffix.size() && base.compare(base.size() - suffix.size(),
\* suffix.size(), suffix) == 0
EndsWith(base, suffix) ==
    /\ Len(base) >= Len(suffix)
    /\ SubSeq(base, Len(base) - Len(suffix) + 1, Len(base)) = suffix

\* the characters of the model's strings in the order of their codes
CharOrder ==
    <<"-", "/", "0", "1", "2", "3", "4", "5", "6", "7", "8", "9", ":",
      "A", "B", "C", "D", "E", "F", "G", "H", "I", "J", "K", "L", "M",
      "N", "O", "P", "Q", "R", "S", "T", "U", "V", "W", "X", "Y", "Z",
      "_", "a", "b", "c", "d", "e", "f", "g", "h", "i", "j", "k", "l",
      "m", "n", "o", "p", "q", "r", "s", "t", "u", "v", "w", "x", "y",
      "z">>

CharCode(c) == CHOOSE i \in 1..Len(CharOrder) : CharOrder[i] = c

\* a < b for std::string: the first differing character decides, and a
\* proper prefix is less
RECURSIVE StrLess(_, _)
StrLess(a, b) ==
    IF b = <<>> THEN FALSE
    ELSE IF a = <<>> THEN TRUE
    ELSE IF Head(a) # Head(b) THEN CharCode(Head(a)) < CharCode(Head(b))
    ELSE StrLess(Tail(a), Tail(b))

\* std::isdigit, and the value std::stoul gives a string of digits
Digits == <<"0", "1", "2", "3", "4", "5", "6", "7", "8", "9">>

IsDigit(c) == \E i \in 1..10 : Digits[i] = c

DigitValue(c) == (CHOOSE i \in 1..10 : Digits[i] = c) - 1

RECURSIVE DecimalValue(_)
DecimalValue(s) ==
    IF s = <<>> THEN 0
    ELSE 10 * DecimalValue(SubSeq(s, 1, Len(s) - 1)) + DigitValue(s[Len(s)])

\* parse_index_strict, lines 45-59: the index, or 0 when the string is
\* refused (every caller refuses the index 0 as well)
parse_index_strict(s) ==
    IF s = <<>> \/ \E i \in 1..Len(s) : ~IsDigit(s[i]) THEN 0 ELSE DecimalValue(s)

(***************************************************************************)
(* The device catalog: scan_symlinks and evdev_caps, lines 318-352.        *)
(***************************************************************************)
EmptyString == <<>>

AUTO == <<"a", "u", "t", "o">>

DIR_BY_ID ==
    <<"/", "d", "e", "v", "/", "i", "n", "p", "u", "t", "/", "b", "y",
      "-", "i", "d">>

DIR_BY_PATH ==
    <<"/", "d", "e", "v", "/", "i", "n", "p", "u", "t", "/", "b", "y",
      "-", "p", "a", "t", "h">>

EVENT_MARKER == <<"e", "v", "e", "n", "t", "-">>

SUFFIX_MOUSE == <<"-", "e", "v", "e", "n", "t", "-", "m", "o", "u", "s", "e">>

SUFFIX_KBD == <<"-", "e", "v", "e", "n", "t", "-", "k", "b", "d">>

\* a directory entry: its file name, whether it is a symbolic link, and
\* what evdev_caps finds behind it (the device name and the two capabilities)
DirEntry(base, symlink, name, relxy, keys) ==
    [base |-> base, symlink |-> symlink, name |-> name, has_rel_xy |-> relxy,
     has_keys |-> keys]

\* Candidate{de.path().string(), base, origin, name, has_rel_xy, has_keys}
Candidate(dir, e) ==
    [path |-> dir \o <<"/">> \o e.base, base |-> e.base, name |-> e.name,
     has_rel_xy |-> e.has_rel_xy, has_keys |-> e.has_keys]

\* the entries scan_symlinks keeps: symbolic links whose name contains "event-"
Kept(entries) == {e \in entries : e.symlink /\ Contains(e.base, EVENT_MARKER)}

\* std::sort by a.base < b.base; the names in one directory are distinct
RECURSIVE SortedByBase(_)
SortedByBase(cs) ==
    IF cs = {} THEN <<>>
    ELSE LET m == CHOOSE x \in cs : \A y \in cs \ {x} : StrLess(x.base, y.base)
         IN  <<m>> \o SortedByBase(cs \ {m})

\* scan_symlinks(dir, origin) over the entries the directory holds
scan_symlinks(dir, entries) == SortedByBase({Candidate(dir, e) : e \in Kept(entries)})

(***************************************************************************)
(* The command line: parse_args, lines 97-131, and its values.             *)
(***************************************************************************)
\* the values of --on-missing the policy of lines 573-627 tells apart
FAIL == <<"f", "a", "i", "l">>

FALLBACK == <<"f", "a", "l", "l", "b", "a", "c", "k">>

WAIT == <<"w", "a", "i", "t">>

INTERACTIVE == <<"i", "n", "t", "e", "r", "a", "c", "t", "i", "v", "e">>

\* device paths an operator passes with --tp and --kbd
OPERATOR_TP ==
    <<"/", "d", "e", "v", "/", "i", "n", "p", "u", "t", "/", "e", "v", "e", "n", "t", "5">>

OPERATOR_KBD ==
    <<"/", "d", "e", "v", "/", "i", "n", "p", "u", "t", "/", "e", "v", "e", "n", "t", "3">>

(***************************************************************************)
(* The inputs of the startup: the directories, the command line, the       *)
(* operator.                                                               *)
(***************************************************************************)
\* the entries /dev/input/by-id can hold: a Logitech mouse and a TrackPoint;
\* a link ending in -event-mouse whose probe found no capability; a keyboard
IdEntries ==
    {DirEntry(<<"u", "s", "b", "-", "A", "l", "p", "s", "-",
              "e", "v", "e", "n", "t", "-", "m", "o", "u", "s", "e">>, TRUE,
              <<"L", "o", "g", "i", "t", "e", "c", "h", "_", "M", "1", "8", "5">>, TRUE, TRUE),
     DirEntry(<<"u", "s", "b", "-", "L", "e", "n", "o", "v", "o", "_", "T", "r", "a", "c", "k", "P", "o", "i", "n", "t",
              "-", "e", "v", "e", "n", "t", "-", "m", "o", "u", "s", "e">>, TRUE,
              <<"T", "r", "a", "c", "k", "P", "o", "i", "n", "t">>, TRUE, TRUE),
     DirEntry(<<"u", "s", "b", "-", "F", "a", "k", "e", "_", "T", "r", "a", "c", "k", "P", "o", "i", "n", "t",
              "-", "e", "v", "e", "n", "t", "-", "m", "o", "u", "s", "e">>,
              TRUE, <<>>, FALSE, FALSE),
     DirEntry(<<"u", "s", "b", "-", "L", "e", "n", "o", "v", "o",
              "-", "e", "v", "e", "n", "t", "-", "k", "b", "d">>, TRUE,
              <<"L", "e", "n", "o", "v", "o", "_", "K", "e", "y", "b", "o", "a", "r", "d">>, FALSE, TRUE)}

\* the entries /dev/input/by-path can hold: a TrackPoint, a keyboard, and a
\* pointer whose link does not end in -event-mouse
PathEntries ==
    {DirEntry(<<"p", "c", "i", "-", "s", "e", "r", "i", "o", "1",
              "-", "e", "v", "e", "n", "t", "-", "m", "o", "u", "s", "e">>, TRUE,
              <<"T", "r", "a", "c", "k", "P", "o", "i", "n", "t">>, TRUE, TRUE),
     DirEntry(<<"p", "c", "i", "-", "s", "e", "r", "i", "o", "0",
              "-", "e", "v", "e", "n", "t", "-", "k", "b", "d">>, TRUE,
              <<"A", "T", "_", "k", "e", "y", "b", "o", "a", "r", "d">>, FALSE, TRUE),
     DirEntry(<<"p", "c", "i", "-", "T", "r", "a", "c", "k", "P", "o", "i", "n", "t",
              "-", "e", "v", "e", "n", "t", "-", "j", "o", "y", "s", "t", "i", "c", "k">>,
              TRUE, <<"T", "r", "a", "c", "k", "P", "o", "i", "n", "t">>, TRUE, TRUE)}

\* --tp: omitted, auto in capitals, or a device path
TpPaths == {EmptyString, <<"A", "U", "T", "O">>, OPERATOR_TP}

\* --kbd: omitted or a device path
KbdPaths == {EmptyString, OPERATOR_KBD}

\* --tp-match: none; one rule; an empty rule followed by a rule
TpRuleLists ==
    {<<>>,
     <<<<"t", "r", "a", "c", "k", "p", "o", "i", "n", "t">>>>,
     <<<<>>, <<"l", "o", "g", "i", "t", "e", "c", "h">>>>}

\* --kbd-match: none, or one rule
KbdRuleLists == {<<>>, <<<<"l", "e", "n", "o", "v", "o">>>>}

\* --on-missing: the four policies, one of them in capitals, and a value
\* that names none
OnMissingValues ==
    {FAIL, <<"F", "A", "L", "L", "B", "A", "C", "K">>, WAIT, INTERACTIVE,
     <<"r", "e", "t", "r", "y">>}

\* --wait-secs
WaitSecs == {0, 2, 5}

\* the wakes of the wait loop the model follows when --wait-secs is 0
MaxWakes == 3

\* the changes of the two directories the model follows
MaxFsChanges == 1

\* the lines an operator types at a prompt of the interactive policy
InteractiveLines ==
    {<<>>,
     <<"i", "d", ":", "1">>,
     <<"p", "a", "t", "h", ":", "2">>,
     <<"i", "d", ":", "9">>,
     <<"i", "d", ":", "x">>,
     <<"2">>}

ID_TAG == <<"i", "d", ":">>

PATH_TAG == <<"p", "a", "t", "h", ":">>

\* Every scan the model can make, computed once: the catalog scan_symlinks
\* returns for each set of entries a directory can hold
ScanOfId == [es \in SUBSET IdEntries |-> scan_symlinks(DIR_BY_ID, es)] @@ <<>>

ScanOfPath == [es \in SUBSET PathEntries |-> scan_symlinks(DIR_BY_PATH, es)] @@ <<>>

\* the candidates the scans can hold
AllCandidates ==
    {Candidate(DIR_BY_ID, e) : e \in IdEntries}
        \cup {Candidate(DIR_BY_PATH, e) : e \in PathEntries}

(***************************************************************************)
(* choose_ordered, lines 354-391.                                          *)
(***************************************************************************)
tp_kws == <<<<"t", "r", "a", "c", "k", "p", "o", "i", "n", "t">>,
           <<"t", "h", "i", "n", "k", "p", "a", "d">>,
           <<"l", "e", "n", "o", "v", "o">>,
           <<"t", "r", "a", "c", "k", "p", "a", "d">>,
           <<"t", "o", "u", "c", "h", "p", "a", "d">>,
           <<"l", "o", "g", "i", "t", "e", "c", "h">>,
           <<"m", "o", "u", "s", "e">>>>

kb_kws == <<<<"k", "e", "y", "b", "o", "a", "r", "d">>,
           <<"k", "b", "d">>,
           <<"t", "h", "i", "n", "k", "p", "a", "d">>,
           <<"l", "e", "n", "o", "v", "o">>,
           <<"l", "o", "g", "i", "t", "e", "c", "h">>>>

\* line 374: contains_ci(pc->base, r) || (!pc->name.empty() && contains_ci(pc->name, r))
Matches(c, r) == contains_ci(c.base, r) \/ (c.name # <<>> /\ contains_ci(c.name, r))

\* the strings choose_ordered searches the candidates for
AllNeedles ==
    {tp_kws[i] : i \in 1..Len(tp_kws)} \cup {kb_kws[i] : i \in 1..Len(kb_kws)}
        \cup UNION {{rs[i] : i \in 1..Len(rs)} : rs \in TpRuleLists \cup KbdRuleLists}

\* Matches for every candidate and string of the model, computed once
MatchTable == [p \in AllCandidates \X AllNeedles |-> Matches(p[1], p[2])] @@ <<>>

\* IsTyped with the capability tests of lines 363-364 left out
IsTyped_SuffixOnly(c, want_mouse) ==
    EndsWith(c.base, IF want_mouse THEN SUFFIX_MOUSE ELSE SUFFIX_KBD)

\* lines 359-366: the candidate is pushed to typed
IsTyped(c, want_mouse) ==
    /\ EndsWith(c.base, IF want_mouse THEN SUFFIX_MOUSE ELSE SUFFIX_KBD)
    /\ IF want_mouse THEN c.has_rel_xy ELSE c.has_keys

\* std::vector<const Candidate*> typed
Typed(pool, want_mouse) ==
    LET keep(c) == IsTyped(c, want_mouse) IN SelectSeq(pool, keep)

\* Matches, looked up
Hit(c, r) == MatchTable[<<c, r>>]

\* the first element of typed that matches r: its index, or 0
FirstMatch(typed, r) ==
    IF \E i \in 1..Len(typed) : Hit(typed[i], r)
    THEN CHOOSE i \in 1..Len(typed) :
             Hit(typed[i], r) /\ \A j \in 1..(i - 1) : ~Hit(typed[j], r)
    ELSE 0

\* the first entry of a list of strings, from index i on, that is tried
\* (rules: not empty) and matches an element of typed: its index, or 0
RECURSIVE FirstHit(_, _, _, _)
FirstHit(list, i, typed, skipEmpty) ==
    IF i > Len(list) THEN 0
    ELSE IF ~(skipEmpty /\ list[i] = <<>>) /\ FirstMatch(typed, list[i]) # 0 THEN i
    ELSE FirstHit(list, i + 1, typed, skipEmpty)

\* RuleHit without the test r.empty() of line 370
RuleHit_EmptyTried(rules, typed) == FirstHit(rules, 1, typed, FALSE)

\* lines 368-377: the loop over the rules
RuleHit(rules, typed) == FirstHit(rules, 1, typed, TRUE)

\* the result of a choose_ordered call: the string returned and the value
\* reason has after the call, given the value it had before
Chosen(path, reason) == [path |-> path, reason |-> reason]

\* lines 368-390, typed not being empty: rix is the rule that matched, or 0,
\* and kix the keyword that matched, or 0
ChooseAmong(typed, rules, kws, rix, kix) ==
    IF rix # 0
    THEN Chosen(typed[FirstMatch(typed, rules[rix])].path, <<"rule", rix, rules[rix]>>)
    ELSE IF kix # 0
         THEN Chosen(typed[FirstMatch(typed, kws[kix])].path, <<"keyword", kws[kix]>>)
         ELSE Chosen(typed[1].path, <<"first capable in order">>)

\* lines 367-390, given typed and the keywords of the class
ChooseTyped(typed, rules, kws, reason) ==
    IF typed = <<>> THEN Chosen(EmptyString, reason)
    ELSE ChooseAmong(typed, rules, kws, RuleHit(rules, typed), FirstHit(kws, 1, typed, FALSE))

choose_ordered(pool, want_mouse, rules, reason) ==
    ChooseTyped(Typed(pool, want_mouse), rules, IF want_mouse THEN tp_kws ELSE kb_kws,
                reason)

(***************************************************************************)
(* autodetect, lines 403-427.                                              *)
(***************************************************************************)
\* SecondChoice with the by-path selection taken whenever it is not empty
SecondChoice_SecondaryWins(first, ppath, want_mouse, rules) ==
    IF choose_ordered(ppath, want_mouse, rules, first.reason).path # EmptyString
    THEN choose_ordered(ppath, want_mouse, rules, first.reason)
    ELSE first

\* if (guess.empty()) guess = choose_ordered(ppath, ...): lines 411 and 420
SecondChoice(first, ppath, want_mouse, rules) ==
    IF first.path = EmptyString
    THEN choose_ordered(ppath, want_mouse, rules, first.reason)
    ELSE first

\* if (!guess.empty()) out = guess: lines 412-415 and 421-424
Assigned(out, guess) ==
    IF guess.path # EmptyString THEN guess ELSE Chosen(out, guess.reason)

\* one class of autodetect: out.empty() || to_lower(out) == "auto", the two
\* choose_ordered calls, and the assignment of a non-empty guess
DetectClass(out, id, ppath, want_mouse, rules) ==
    IF out = EmptyString \/ to_lower(out) = AUTO
    THEN Assigned(out, SecondChoice(choose_ordered(id, want_mouse, rules, EmptyString),
                                    ppath, want_mouse, rules))
    ELSE Chosen(out, EmptyString)

\* what a call of autodetect leaves: tp_out, kbd_out, the reasons, and the
\* value returned, line 426
Detected(tp, kbd) ==
    [tp_out |-> tp.path, kbd_out |-> kbd.path, tp_why |-> tp.reason,
     kbd_why |-> kbd.reason,
     ok |-> (tp.path # EmptyString /\ kbd.path # EmptyString)]

\* autodetect(tp_out, kbd_out) on the two scans
autodetect(tp_out, kbd_out, id, ppath, tp_matches, kbd_matches) ==
    Detected(DetectClass(tp_out, id, ppath, TRUE, tp_matches),
             DetectClass(kbd_out, id, ppath, FALSE, kbd_matches))

(***************************************************************************)
(* State.                                                                  *)
(***************************************************************************)
VARIABLES
    gain,        \* args.gain
    running,     \* std::atomic<bool> running
    keys_down,   \* std::unordered_set<int> keys_down
    keys_mtx,    \* std::mutex keys_mtx: its holder, or "none"
    grabbed,     \* bool grabbed
    last_mode,   \* Mode last_mode
    tp_grab,     \* whether tp_dev is exclusively captured (EVIOCGRAB)
    udev,        \* the synthetic device behind ufd: "created", "destroyed", "closed"
    axes,        \* the last value written to each axis of the synthetic device
    handles,     \* the libevdev handles not yet freed
    tp_queue,    \* events pending on tp_dev
    tp_frame,    \* the motion report the events of tp_queue came from, <<0, 0>> when none is pending
    tp_left,     \* motion reports the trackpoint may still send
    kbd_left,    \* events the keyboard may still send
    mpc,         \* main: position in the translator loop and the teardown
    rc,          \* main: rc of libevdev_next_event(tp_dev)
    ev,          \* main: input_event ev
    sx,          \* main: int sx
    sy,          \* main: int sy
    shift,       \* main: bool shift
    ctrl,        \* main: bool ctrl
    mode,        \* main: Mode mode
    kpc,         \* kbd_thread: position in its loop
    kev,         \* kbd_thread: input_event ev
    wq,          \* per context: the write() calls of the emit calls in progress
    wlog,        \* per context: the device operations of its current iteration
    ev_frame,    \* history: the motion report ev came from
    ev_grabbed,  \* history: grabbed at the time ev was read
    prev_mode,   \* history: last_mode at the time ev was read
    snap_keys,   \* history: keys_down at the time of the snapshot
    td_log,      \* history: the teardown steps taken, in order
    gate_grabbed, \* history: the value of grabbed that line 696 read for ev
    presses_odd, \* history: whether the fresh hotkey presses read so far are odd in number
    args,        \* Args args: tp_path, kbd_path, auto_detect, tp_matches, kbd_matches, on_missing, wait_secs
    dir_id,      \* the entries of /dev/input/by-id
    dir_path,    \* the entries of /dev/input/by-path
    fs_left,     \* changes of the two directories that may still happen
    tp_guess,    \* main: std::string tp_guess
    kbd_guess,   \* main: std::string kbd_guess
    ok,          \* main: bool ok
    waited,      \* main: int waited
    spc,         \* main: position in the startup, lines 568-657
    exit_status, \* the status the process exited with, "none" while it runs
    scan,        \* history: the two catalogs of the latest scan
    scan_no,     \* history: the number of autodetect calls made
    tp_scan,     \* history: the autodetect call that assigned tp_guess, 0 if none did
    kbd_scan,    \* history: the autodetect call that assigned kbd_guess, 0 if none did
    tp_why,      \* history: the reason of the latest choice for the trackpoint
    kbd_why,     \* history: the reason of the latest choice for the keyboard
    first_sel,   \* history: what the first autodetect call resolved
    policy       \* history: the branch of the missing-device policy that ran

vars == <<gain, running, keys_down, keys_mtx, grabbed, last_mode, tp_grab, udev, axes,
          handles, tp_queue, tp_frame, tp_left, kbd_left, mpc, rc, ev, sx, sy, shift,
          ctrl, mode, kpc, kev, wq, wlog, ev_frame, ev_grabbed, prev_mode, snap_keys,
          td_log, gate_grabbed, presses_odd, args, dir_id, dir_path, fs_left, tp_guess,
          kbd_guess, ok, waited, spc, exit_status, scan, scan_no, tp_scan, kbd_scan,
          tp_why, kbd_why, first_sel, policy>>

\* the state of the startup
startVars == <<args, dir_id, dir_path, fs_left, tp_guess, kbd_guess, ok, waited, spc,
               exit_status, scan, scan_no, tp_scan, kbd_scan, tp_why, kbd_why,
               first_sel, policy>>

\* the state of the engine, but for the synthetic device and the handles
engineVars == <<gain, running, keys_down, keys_mtx, grabbed, last_mode, tp_grab, axes,
                tp_queue, tp_frame, tp_left, kbd_left, mpc, rc, ev, sx, sy, shift, ctrl,
                mode, kpc, kev, wq, wlog, ev_frame, ev_grabbed, prev_mode, snap_keys,
                td_log, gate_grabbed, presses_odd>>

envVars == <<tp_queue, tp_frame, tp_left, kbd_left>>

mainLocals == <<rc, ev, sx, sy, shift, ctrl, mode>>

histVars == <<ev_frame, ev_grabbed, prev_mode, snap_keys, td_log, gate_grabbed, presses_odd>>

sharedVars == <<running, keys_down, keys_mtx, grabbed, tp_grab, udev, axes, handles>>

\* the startup is over: the paths are chosen, and both devices are open
StartupDone ==
    /\ args = [tp_path |-> OPERATOR_TP, kbd_path |-> OPERATOR_KBD, auto_detect |-> FALSE,
               tp_matches |-> <<>>, kbd_matches |-> <<>>, on_missing |-> FAIL,
               wait_secs |-> 0]
    /\ dir_id = {}
    /\ dir_path = {}
    /\ fs_left = 0
    /\ tp_guess = EmptyString
    /\ kbd_guess = EmptyString
    /\ ok = FALSE
    /\ waited = 0
    /\ spc = "engine"
    /\ exit_status = "none"
    /\ scan = [id |-> <<>>, ppath |-> <<>>]
    /\ scan_no = 0
    /\ tp_scan = 0
    /\ kbd_scan = 0
    /\ tp_why = EmptyString
    /\ kbd_why = EmptyString
    /\ first_sel = "none"
    /\ policy = "none"

\* the state when kbd_thread is started: lines 656-664
Init ==
    /\ StartupDone
    /\ gain \in Gains
    /\ running = TRUE
    /\ keys_down = {}
    /\ keys_mtx = "none"
    /\ grabbed = FALSE
    /\ last_mode = "ORBIT"
    /\ tp_grab = FALSE
    /\ udev = "created"
    /\ axes = [a \in AxisSet |-> 0]
    /\ handles = {"tp_dev", "kbd_dev"}
    /\ tp_queue = <<>>
    /\ tp_frame = <<0, 0>>
    /\ tp_left = MaxTpFrames
    /\ kbd_left = MaxKbdEvents
    /\ mpc = "loop"
    /\ rc = "EAGAIN"
    /\ ev = NoEvent
    /\ sx = 0
    /\ sy = 0
    /\ shift = FALSE
    /\ ctrl = FALSE
    /\ mode = "ORBIT"
    /\ kpc = "loop"
    /\ kev = NoEvent
    /\ wq = [c \in {"main", "kbd"} |-> <<>>]
    /\ wlog = [c \in {"main", "kbd"} |-> <<>>]
    /\ ev_frame = <<0, 0>>
    /\ ev_grabbed = FALSE
    /\ prev_mode = "ORBIT"
    /\ snap_keys = {}
    /\ td_log = <<>>
    /\ gate_grabbed = FALSE
    /\ presses_odd = FALSE

\* The locals of an iteration of the translator are dead once it ends: the
\* next iteration assigns each before it reads it.  The model returns them,
\* and the history of the iteration, to their initial values.
MainIterationEnds ==
    /\ rc' = "EAGAIN"
    /\ ev' = NoEvent
    /\ sx' = 0
    /\ sy' = 0
    /\ shift' = FALSE
    /\ ctrl' = FALSE
    /\ mode' = "ORBIT"
    /\ ev_frame' = <<0, 0>>
    /\ ev_grabbed' = FALSE
    /\ prev_mode' = "ORBIT"
    /\ snap_keys' = {}
    /\ gate_grabbed' = FALSE
    /\ wlog' = [wlog EXCEPT !["main"] = <<>>]

\* the same for an iteration of kbd_thread
KbdIterationEnds ==
    /\ kev' = NoEvent
    /\ wlog' = [wlog EXCEPT !["kbd"] = <<>>]

(***************************************************************************)
(* Device operations.                                                      *)
(***************************************************************************)
\* libevdev_grab(tp_dev, ...) and the log lines, as entries of wlog
GrabOp == Event("IOCTL", "GRAB", 0)

UngrabOp == Event("IOCTL", "UNGRAB", 0)

LogOp(what) == Event("COUT", what, 0)

\* grabbed = b, as an entry of wlog
StoreOp(b) == Event("STORE", "grabbed", IF b THEN 1 ELSE 0)

\* write(fd, &ev, sizeof(ev)) on the synthetic device: an EV_ABS event sets
\* the axis; once the device is destroyed or the descriptor closed the
\* write changes nothing
AxesAfter(w) ==
    IF udev = "created" /\ w.type = "EV_ABS" THEN [axes EXCEPT ![w.code] = w.value] ELSE axes

\* one write() call of the emit calls in progress in context c
DoWrite(c) ==
    /\ wq[c] # <<>>
    /\ axes' = AxesAfter(Head(wq[c]))
    /\ wq' = [wq EXCEPT ![c] = Tail(wq[c])]
    /\ wlog' = [wlog EXCEPT ![c] = Append(wlog[c], Head(wq[c]))]

(***************************************************************************)
(* The environment: the signal, the trackpoint, the keyboard.              *)
(***************************************************************************)
\* Neither loop reads its device again once running is false (lines 666 and
\* 694 come before the reads), so the input still pending, and the input the
\* devices could still send, is dropped from the state.
InputDropped ==
    /\ tp_queue' = <<>>
    /\ tp_frame' = <<0, 0>>
    /\ tp_left' = 0
    /\ kbd_left' = 0

\* void sigint_handler(int) { running = false; }
sigint_handler ==
    /\ running
    /\ running' = FALSE
    /\ InputDropped
    /\ UNCHANGED <<startVars, gain, keys_down, keys_mtx, grabbed, last_mode, tp_grab, udev, axes,
                   handles, mpc, kpc, kev, wq, wlog>>
    /\ UNCHANGED <<mainLocals, histVars>>

\* the trackpoint reports a motion: its events become readable on tp_dev
TpMotion ==
    /\ tp_left > 0
    /\ tp_queue = <<>>
    /\ \E f \in TpFrames :
          /\ tp_queue' = FrameEvents(f[1], f[2])
          /\ tp_frame' = f
    /\ tp_left' = tp_left - 1
    /\ UNCHANGED <<startVars, gain, last_mode, mpc, kpc, kev, wq, wlog, kbd_left>>
    /\ UNCHANGED <<sharedVars, mainLocals, histVars>>

(***************************************************************************)
(* kbd_thread: lines 664-691.                                              *)
(***************************************************************************)
\* if (ev.value) keys_down.insert(ev.code); else keys_down.erase(ev.code);
KeysAfter(keys, e) == IF e.value # 0 THEN keys \cup {e.code} ELSE keys \ {e.code}

\* IsToggle with ev.value != 0 in place of ev.value == 1
IsToggle_AnyPress(e) == e.code = DEFAULT_HOTKEY /\ e.value # 0

\* if (ev.code == args.hotkey && ev.value == 1)
IsToggle(e) == e.code = DEFAULT_HOTKEY /\ e.value = 1

\* K_exit with the loop left only while the trackpoint is not grabbed
K_exit_OnlyIdle ==
    /\ kpc = "loop"
    /\ ~running
    /\ ~grabbed
    /\ kpc' = "exit"
    /\ UNCHANGED <<startVars, gain, last_mode, mpc, kev, wq, wlog>>
    /\ UNCHANGED <<sharedVars, envVars, mainLocals, histVars>>

\* while (running) is false: the thread function returns
K_exit ==
    /\ kpc = "loop"
    /\ ~running
    /\ kpc' = "exit"
    /\ UNCHANGED <<startVars, gain, last_mode, mpc, kev, wq, wlog>>
    /\ UNCHANGED <<sharedVars, envVars, mainLocals, histVars>>

\* while (running), and libevdev_next_event(kbd_dev, ...) returns 0 with an
\* event; line 668 lets only a key event on
K_read ==
    /\ kpc = "loop"
    /\ running
    /\ kbd_left > 0
    /\ kbd_left' = kbd_left - 1
    /\ \E e \in KbdEvents :
          IF e.type = "EV_KEY"
          THEN /\ kev' = e
               /\ kpc' = "lock"
               /\ presses_odd' = IF e.code = DEFAULT_HOTKEY /\ e.value = 1
                                 THEN ~presses_odd ELSE presses_odd
          ELSE /\ UNCHANGED <<kev, kpc, presses_odd>>
    /\ UNCHANGED <<startVars, gain, last_mode, mpc, wq, wlog, tp_queue, tp_frame, tp_left>>
    /\ UNCHANGED <<ev_frame, ev_grabbed, prev_mode, snap_keys, td_log, gate_grabbed>>
    /\ UNCHANGED <<sharedVars, mainLocals>>

\* while (running), and libevdev_next_event returns -EAGAIN: sleep 1 ms
K_idle ==
    /\ kpc = "loop"
    /\ running
    /\ UNCHANGED vars

\* std::lock_guard<std::mutex> lock(keys_mtx);
K_lock ==
    /\ kpc = "lock"
    /\ keys_mtx = "none"
    /\ keys_mtx' = "kbd"
    /\ kpc' = "update"
    /\ UNCHANGED <<startVars, gain, running, keys_down, grabbed, last_mode, tp_grab, udev, axes,
                   handles, mpc, kev, wq, wlog>>
    /\ UNCHANGED <<envVars, mainLocals, histVars>>

\* lines 670-676: the update of keys_down, then the hotkey test; an event
\* that is no toggle leaves the scope of the lock and ends the iteration
K_update ==
    /\ kpc = "update"
    /\ keys_down' = KeysAfter(keys_down, kev)
    /\ IF IsToggle(kev)
       THEN /\ kpc' = IF grabbed THEN "ungrab" ELSE "grab"
            /\ UNCHANGED <<keys_mtx, kev, wlog>>
       ELSE /\ kpc' = "loop"
            /\ keys_mtx' = "none"
            /\ KbdIterationEnds
    /\ UNCHANGED <<startVars, gain, running, grabbed, last_mode, tp_grab, udev, axes, handles,
                   mpc, wq>>
    /\ UNCHANGED <<envVars, mainLocals, histVars>>

\* libevdev_grab(tp_dev, LIBEVDEV_UNGRAB);
K_ungrab ==
    /\ kpc = "ungrab"
    /\ tp_grab' = FALSE
    /\ wlog' = [wlog EXCEPT !["kbd"] = Append(wlog["kbd"], UngrabOp)]
    /\ kpc' = "set_false"
    /\ UNCHANGED <<startVars, gain, running, keys_down, keys_mtx, grabbed, last_mode, udev, axes,
                   handles, mpc, kev, wq>>
    /\ UNCHANGED <<envVars, mainLocals, histVars>>

\* grabbed = false; and the call of zero_all_axes(ufd)
K_set_false ==
    /\ kpc = "set_false"
    /\ grabbed' = FALSE
    /\ wlog' = [wlog EXCEPT !["kbd"] = Append(wlog["kbd"], StoreOp(FALSE))]
    /\ wq' = [wq EXCEPT !["kbd"] = zero_all_axes]
    /\ kpc' = "zero"
    /\ UNCHANGED <<startVars, gain, running, keys_down, keys_mtx, last_mode, tp_grab, udev, axes,
                   handles, mpc, kev>>
    /\ UNCHANGED <<envVars, mainLocals, histVars>>

\* zero_all_axes(ufd): its write() calls, one at a time
K_zero_write ==
    /\ kpc = "zero"
    /\ DoWrite("kbd")
    /\ UNCHANGED <<startVars, gain, running, keys_down, keys_mtx, grabbed, last_mode, tp_grab, udev,
                   handles, mpc, kpc, kev>>
    /\ UNCHANGED <<envVars, mainLocals, histVars>>

\* zero_all_axes returned; std::cout << "[toggle] OFF";
K_log_off ==
    /\ kpc = "zero"
    /\ wq["kbd"] = <<>>
    /\ wlog' = [wlog EXCEPT !["kbd"] = Append(wlog["kbd"], LogOp("[toggle] OFF"))]
    /\ kpc' = "unlock"
    /\ UNCHANGED <<startVars, gain, last_mode, mpc, kev, wq>>
    /\ UNCHANGED <<sharedVars, envVars, mainLocals, histVars>>

\* libevdev_grab(tp_dev, LIBEVDEV_GRAB);
K_grab ==
    /\ kpc = "grab"
    /\ tp_grab' = TRUE
    /\ wlog' = [wlog EXCEPT !["kbd"] = Append(wlog["kbd"], GrabOp)]
    /\ kpc' = "set_true"
    /\ UNCHANGED <<startVars, gain, running, keys_down, keys_mtx, grabbed, last_mode, udev, axes,
                   handles, mpc, kev, wq>>
    /\ UNCHANGED <<envVars, mainLocals, histVars>>

\* grabbed = true; std::cout << "[toggle] ON";
K_set_true ==
    /\ kpc = "set_true"
    /\ grabbed' = TRUE
    /\ wlog' = [wlog EXCEPT !["kbd"] =
                    wlog["kbd"] \o <<StoreOp(TRUE), LogOp("[toggle] ON")>>]
    /\ kpc' = "unlock"
    /\ UNCHANGED <<startVars, gain, running, keys_down, keys_mtx, last_mode, tp_grab, udev, axes,
                   handles, mpc, kev, wq>>
    /\ UNCHANGED <<envVars, mainLocals, histVars>>

\* the end of the scope of the lock after a toggle, and of the iteration
K_unlock ==
    /\ kpc = "unlock"
    /\ keys_mtx' = "none"
    /\ kpc' = "loop"
    /\ KbdIterationEnds
    /\ UNCHANGED <<startVars, gain, running, keys_down, grabbed, last_mode, tp_grab, udev, axes,
                   handles, mpc, wq>>
    /\ UNCHANGED <<envVars, mainLocals, histVars>>

kbd_thread ==
    \/ K_exit
    \/ K_read
    \/ K_idle
    \/ K_lock
    \/ K_update
    \/ K_ungrab
    \/ K_set_false
    \/ K_zero_write
    \/ K_log_off
    \/ K_grab
    \/ K_set_true
    \/ K_unlock

(***************************************************************************)
(* main: the translator loop, lines 693-746.                               *)
(***************************************************************************)
\* Gate without the test of grabbed
Gate_NoGrabTest(r, g, e) == r = "OK" /\ e.type = "EV_REL"

\* if (rc == 0 && grabbed && ev.type == EV_REL)
Gate(r, g, e) == r = "OK" /\ g /\ e.type = "EV_REL"

\* while (running) is false: the loop is left for the teardown
M_exit ==
    /\ mpc = "loop"
    /\ ~running
    /\ mpc' = "td_ungrab"
    /\ UNCHANGED <<startVars, gain, last_mode, kpc, kev, wq, wlog>>
    /\ UNCHANGED <<sharedVars, envVars, mainLocals, histVars>>

\* while (running), and rc = libevdev_next_event(tp_dev, ..., &ev): the next
\* pending event, or -EAGAIN when none is pending
M_read ==
    /\ mpc = "loop"
    /\ running
    /\ IF tp_queue # <<>>
       THEN /\ rc' = "OK"
            /\ ev' = Head(tp_queue)
            /\ tp_queue' = Tail(tp_queue)
            /\ tp_frame' = IF Tail(tp_queue) = <<>> THEN <<0, 0>> ELSE tp_frame
            /\ ev_frame' = tp_frame
            /\ ev_grabbed' = grabbed
            /\ prev_mode' = last_mode
       ELSE /\ rc' = "EAGAIN"
            /\ UNCHANGED <<ev, tp_queue, tp_frame, ev_frame, ev_grabbed, prev_mode>>
    /\ mpc' = "gate"
    /\ UNCHANGED <<startVars, gain, last_mode, kpc, kev, wq, wlog, tp_left, kbd_left>>
    /\ UNCHANGED <<sx, sy, shift, ctrl, mode, snap_keys, td_log, gate_grabbed, presses_odd>>
    /\ UNCHANGED sharedVars

\* line 696 is false: with rc == -EAGAIN sleep 1 ms; the iteration ends.
\* grabbed is read here without keys_mtx.
M_ignore ==
    /\ mpc = "gate"
    /\ ~Gate(rc, grabbed, ev)
    /\ mpc' = "loop"
    /\ MainIterationEnds
    /\ UNCHANGED <<startVars, gain, last_mode, kpc, kev, wq, td_log, presses_odd>>
    /\ UNCHANGED <<sharedVars, envVars>>

\* line 696 is true, and lines 697-702: both deltas are 0 after the deadzone
M_deadzone ==
    /\ mpc = "gate"
    /\ Gate(rc, grabbed, ev)
    /\ EventDelta(ev) = <<0, 0>>
    /\ gate_grabbed' = grabbed
    /\ mpc' = "continue"
    /\ UNCHANGED <<startVars, gain, last_mode, kpc, kev, wq, wlog>>
    /\ UNCHANGED <<ev_frame, ev_grabbed, prev_mode, snap_keys, td_log, presses_odd>>
    /\ UNCHANGED <<sharedVars, envVars, mainLocals>>

\* continue; the iteration ends
M_continue ==
    /\ mpc = "continue"
    /\ mpc' = "loop"
    /\ MainIterationEnds
    /\ UNCHANGED <<startVars, gain, last_mode, kpc, kev, wq, td_log, presses_odd>>
    /\ UNCHANGED <<sharedVars, envVars>>

\* line 696 is true, and lines 697-712: deadzone, normalization, gain
M_scale ==
    /\ mpc = "gate"
    /\ Gate(rc, grabbed, ev)
    /\ EventDelta(ev) # <<0, 0>>
    /\ sx' \in ToIntOutcomes(EventDelta(ev)[1], gain)
    /\ sy' \in ToIntOutcomes(EventDelta(ev)[2], gain)
    /\ gate_grabbed' = grabbed
    /\ mpc' = "lock"
    /\ UNCHANGED <<startVars, gain, last_mode, kpc, kev, wq, wlog, rc, ev, shift, ctrl, mode>>
    /\ UNCHANGED <<ev_frame, ev_grabbed, prev_mode, snap_keys, td_log, presses_odd>>
    /\ UNCHANGED <<sharedVars, envVars>>

\* std::lock_guard<std::mutex> lock(keys_mtx);
M_lock ==
    /\ mpc = "lock"
    /\ keys_mtx = "none"
    /\ keys_mtx' = "main"
    /\ mpc' = "snap"
    /\ UNCHANGED <<startVars, gain, running, keys_down, grabbed, last_mode, tp_grab, udev, axes,
                   handles, kpc, kev, wq, wlog>>
    /\ UNCHANGED <<envVars, mainLocals, histVars>>

\* M_snap that empties keys_down once it has read it
M_snap_TakesKeys ==
    /\ mpc = "snap"
    /\ shift' = ShiftDown(keys_down)
    /\ ctrl' = CtrlDown(keys_down)
    /\ snap_keys' = keys_down
    /\ keys_down' = {}
    /\ keys_mtx' = "none"
    /\ mpc' = "mode"
    /\ UNCHANGED <<startVars, gain, running, grabbed, last_mode, tp_grab, udev, axes,
                   handles, kpc, kev, wq, wlog, rc, ev, sx, sy, mode>>
    /\ UNCHANGED <<ev_frame, ev_grabbed, prev_mode, td_log, gate_grabbed, presses_odd>>
    /\ UNCHANGED envVars

\* lines 717-719: shift and ctrl from keys_down, and the end of the scope
M_snap ==
    /\ mpc = "snap"
    /\ shift' = ShiftDown(keys_down)
    /\ ctrl' = CtrlDown(keys_down)
    /\ snap_keys' = keys_down
    /\ keys_mtx' = "none"
    /\ mpc' = "mode"
    /\ UNCHANGED <<startVars, gain, running, keys_down, grabbed, last_mode, tp_grab, udev, axes,
                   handles, kpc, kev, wq, wlog, rc, ev, sx, sy, mode>>
    /\ UNCHANGED <<ev_frame, ev_grabbed, prev_mode, td_log, gate_grabbed, presses_odd>>
    /\ UNCHANGED envVars

\* M_mode_changed without the call of zero_all_axes
M_mode_changed_NoZero ==
    /\ mpc = "mode"
    /\ mode' = ResolveMode(shift, ctrl)
    /\ mode' # last_mode
    /\ wq' = [wq EXCEPT !["main"] = <<>>]
    /\ mpc' = "zero"
    /\ UNCHANGED <<startVars, gain, last_mode, kpc, kev, wlog, rc, ev, sx, sy, shift, ctrl>>
    /\ UNCHANGED <<sharedVars, envVars, histVars>>

\* lines 721-728: the mode is resolved and differs from last_mode:
\* zero_all_axes(ufd) is called
M_mode_changed ==
    /\ mpc = "mode"
    /\ mode' = ResolveMode(shift, ctrl)
    /\ mode' # last_mode
    /\ wq' = [wq EXCEPT !["main"] = zero_all_axes]
    /\ mpc' = "zero"
    /\ UNCHANGED <<startVars, gain, last_mode, kpc, kev, wlog, rc, ev, sx, sy, shift, ctrl>>
    /\ UNCHANGED <<sharedVars, envVars, histVars>>

\* lines 721-727 and 733-742: the mode is resolved and is last_mode: the two
\* emit calls of the mode
M_mode_same ==
    /\ mpc = "mode"
    /\ mode' = ResolveMode(shift, ctrl)
    /\ mode' = last_mode
    /\ \E ws \in AxisMapping(mode', sx, sy) : wq' = [wq EXCEPT !["main"] = ws]
    /\ mpc' = "emit"
    /\ UNCHANGED <<startVars, gain, last_mode, kpc, kev, wlog, rc, ev, sx, sy, shift, ctrl>>
    /\ UNCHANGED <<sharedVars, envVars, histVars>>

\* the write() calls of zero_all_axes and of the two emit calls
M_write ==
    /\ mpc \in {"zero", "emit"}
    /\ DoWrite("main")
    /\ UNCHANGED <<startVars, gain, running, keys_down, keys_mtx, grabbed, last_mode, tp_grab, udev,
                   handles, mpc, kpc, kev>>
    /\ UNCHANGED <<envVars, mainLocals, histVars>>

\* lines 729-742, after zero_all_axes returned: the log line, last_mode = mode,
\* and the two emit calls of the mode
M_record ==
    /\ mpc = "zero"
    /\ wq["main"] = <<>>
    /\ last_mode' = mode
    /\ \E ws \in AxisMapping(mode, sx, sy) : wq' = [wq EXCEPT !["main"] = ws]
    /\ mpc' = "emit"
    /\ UNCHANGED <<startVars, gain, kpc, kev, wlog>>
    /\ UNCHANGED <<sharedVars, envVars, mainLocals, histVars>>

\* the end of the iteration after the second emit
M_next ==
    /\ mpc = "emit"
    /\ wq["main"] = <<>>
    /\ mpc' = "loop"
    /\ MainIterationEnds
    /\ UNCHANGED <<startVars, gain, last_mode, kpc, kev, wq, td_log, presses_odd>>
    /\ UNCHANGED <<sharedVars, envVars>>

translator ==
    \/ M_exit
    \/ M_read
    \/ M_ignore
    \/ M_deadzone
    \/ M_continue
    \/ M_scale
    \/ M_lock
    \/ M_snap
    \/ M_mode_changed
    \/ M_mode_same
    \/ M_write
    \/ M_record
    \/ M_next

(***************************************************************************)
(* main: the teardown, lines 748-758.                                      *)
(***************************************************************************)
\* T_ungrab with the call of zero_all_axes left out
T_ungrab_NoZero ==
    /\ mpc = "td_ungrab"
    /\ tp_grab' = FALSE
    /\ td_log' = Append(td_log, "ungrab")
    /\ wlog' = [wlog EXCEPT !["main"] = Append(wlog["main"], UngrabOp)]
    /\ mpc' = "td_destroy"
    /\ UNCHANGED <<startVars, gain, running, keys_down, keys_mtx, grabbed, last_mode, udev, axes,
                   handles, kpc, kev, wq>>
    /\ UNCHANGED <<ev_frame, ev_grabbed, prev_mode, snap_keys, gate_grabbed, presses_odd>>
    /\ UNCHANGED <<envVars, mainLocals>>

\* libevdev_grab(tp_dev, LIBEVDEV_UNGRAB); and the call of zero_all_axes(ufd)
T_ungrab ==
    /\ mpc = "td_ungrab"
    /\ tp_grab' = FALSE
    /\ td_log' = Append(td_log, "ungrab")
    /\ wlog' = [wlog EXCEPT !["main"] = Append(wlog["main"], UngrabOp)]
    /\ wq' = [wq EXCEPT !["main"] = zero_all_axes]
    /\ mpc' = "td_zero"
    /\ UNCHANGED <<startVars, gain, running, keys_down, keys_mtx, grabbed, last_mode, udev, axes,
                   handles, kpc, kev>>
    /\ UNCHANGED <<ev_frame, ev_grabbed, prev_mode, snap_keys, gate_grabbed, presses_odd>>
    /\ UNCHANGED <<envVars, mainLocals>>

\* zero_all_axes(ufd): its write() calls, one at a time
T_zero_write ==
    /\ mpc = "td_zero"
    /\ DoWrite("main")
    /\ UNCHANGED <<startVars, gain, running, keys_down, keys_mtx, grabbed, last_mode, tp_grab, udev,
                   handles, mpc, kpc, kev>>
    /\ UNCHANGED <<envVars, mainLocals, histVars>>

\* zero_all_axes returned
T_zero_done ==
    /\ mpc = "td_zero"
    /\ wq["main"] = <<>>
    /\ td_log' = Append(td_log, "zero")
    /\ mpc' = "td_destroy"
    /\ UNCHANGED <<startVars, gain, last_mode, kpc, kev, wq, wlog>>
    /\ UNCHANGED <<ev_frame, ev_grabbed, prev_mode, snap_keys, gate_grabbed, presses_odd>>
    /\ UNCHANGED <<sharedVars, envVars, mainLocals>>

\* ioctl(ufd, UI_DEV_DESTROY);
T_destroy ==
    /\ mpc = "td_destroy"
    /\ udev' = "destroyed"
    /\ td_log' = Append(td_log, "destroy")
    /\ mpc' = "td_close"
    /\ UNCHANGED <<startVars, gain, running, keys_down, keys_mtx, grabbed, last_mode, tp_grab, axes,
                   handles, kpc, kev, wq, wlog>>
    /\ UNCHANGED <<ev_frame, ev_grabbed, prev_mode, snap_keys, gate_grabbed, presses_odd>>
    /\ UNCHANGED <<envVars, mainLocals>>

\* close(ufd);
T_close ==
    /\ mpc = "td_close"
    /\ udev' = "closed"
    /\ td_log' = Append(td_log, "close")
    /\ mpc' = "td_join"
    /\ UNCHANGED <<startVars, gain, running, keys_down, keys_mtx, grabbed, last_mode, tp_grab, axes,
                   handles, kpc, kev, wq, wlog>>
    /\ UNCHANGED <<ev_frame, ev_grabbed, prev_mode, snap_keys, gate_grabbed, presses_odd>>
    /\ UNCHANGED <<envVars, mainLocals>>

\* kbd_thread.join(); returns once kbd_thread has left its loop
T_join ==
    /\ mpc = "td_join"
    /\ kpc = "exit"
    /\ td_log' = Append(td_log, "join")
    /\ mpc' = "td_free"
    /\ UNCHANGED <<startVars, gain, last_mode, kpc, kev, wq, wlog>>
    /\ UNCHANGED <<ev_frame, ev_grabbed, prev_mode, snap_keys, gate_grabbed, presses_odd>>
    /\ UNCHANGED <<sharedVars, envVars, mainLocals>>

\* libevdev_free(tp_dev); libevdev_free(kbd_dev); return 0;
T_free ==
    /\ mpc = "td_free"
    /\ handles' = {}
    /\ td_log' = Append(td_log, "free")
    /\ mpc' = "done"
    /\ UNCHANGED <<startVars, gain, running, keys_down, keys_mtx, grabbed, last_mode, tp_grab, udev,
                   axes, kpc, kev, wq, wlog>>
    /\ UNCHANGED <<ev_frame, ev_grabbed, prev_mode, snap_keys, gate_grabbed, presses_odd>>
    /\ UNCHANGED <<envVars, mainLocals>>

teardown ==
    \/ T_ungrab
    \/ T_zero_write
    \/ T_zero_done
    \/ T_destroy
    \/ T_close
    \/ T_join
    \/ T_free

Next ==
    \/ sigint_handler
    \/ TpMotion
    \/ kbd_thread
    \/ translator
    \/ teardown

Spec == Init /\ [][Next]_vars

\* The scheduler is fair to both threads: kbd_thread, and main in its loop
\* and in its teardown, each take a step when they can.
FairSpec ==
    /\ Spec
    /\ WF_vars(kbd_thread)
    /\ WF_vars(translator)
    /\ WF_vars(teardown)

(***************************************************************************)
(* The startup: main, lines 568-657.  Actions.                             *)
(***************************************************************************)
\* the engine is not constructed during the startup
EngineNotStarted ==
    /\ gain = DEFAULT_GAIN
    /\ running = TRUE
    /\ keys_down = {}
    /\ keys_mtx = "none"
    /\ grabbed = FALSE
    /\ last_mode = "ORBIT"
    /\ tp_grab = FALSE
    /\ axes = [a \in AxisSet |-> 0]
    /\ tp_queue = <<>>
    /\ tp_frame = <<0, 0>>
    /\ tp_left = 0
    /\ kbd_left = 0
    /\ mpc = "startup"
    /\ rc = "EAGAIN"
    /\ ev = NoEvent
    /\ sx = 0
    /\ sy = 0
    /\ shift = FALSE
    /\ ctrl = FALSE
    /\ mode = "ORBIT"
    /\ kpc = "unstarted"
    /\ kev = NoEvent
    /\ wq = [c \in {"main", "kbd"} |-> <<>>]
    /\ wlog = [c \in {"main", "kbd"} |-> <<>>]
    /\ ev_frame = <<0, 0>>
    /\ ev_grabbed = FALSE
    /\ prev_mode = "ORBIT"
    /\ snap_keys = {}
    /\ td_log = <<>>
    /\ gate_grabbed = FALSE
    /\ presses_odd = FALSE

\* the state at line 568: the arguments are parsed, nothing is scanned,
\* created or opened.  --auto, --tp-match, --kbd-match and --wait-secs take
\* a value other than their default only where it makes a difference: --auto
\* when both paths are given, the rules of a class when its path is not
\* given, the timeout under the wait policy.
StartInit ==
    /\ EngineNotStarted
    /\ udev = "none"
    /\ handles = {}
    /\ \E tp \in TpPaths, kbd \in KbdPaths, om \in OnMissingValues :
          \E au \in (IF tp = OPERATOR_TP /\ kbd = OPERATOR_KBD THEN BOOLEAN ELSE {FALSE}),
             tr \in (IF tp = OPERATOR_TP THEN {<<>>} ELSE TpRuleLists),
             kr \in (IF kbd = OPERATOR_KBD THEN {<<>>} ELSE KbdRuleLists),
             ws \in (IF to_lower(om) = WAIT THEN WaitSecs ELSE {0}) :
              args = [tp_path |-> tp, kbd_path |-> kbd, auto_detect |-> au,
                      tp_matches |-> tr, kbd_matches |-> kr, on_missing |-> om,
                      wait_secs |-> ws]
    /\ dir_id \in SUBSET IdEntries
    /\ dir_path \in SUBSET PathEntries
    /\ fs_left = MaxFsChanges
    /\ tp_guess = EmptyString
    /\ kbd_guess = EmptyString
    /\ ok = FALSE
    /\ waited = 0
    /\ spc = "args"
    /\ exit_status = "none"
    /\ scan = [id |-> <<>>, ppath |-> <<>>]
    /\ scan_no = 0
    /\ tp_scan = 0
    /\ kbd_scan = 0
    /\ tp_why = EmptyString
    /\ kbd_why = EmptyString
    /\ first_sel = "none"
    /\ policy = "none"

\* the entries of a directory after those of ch have appeared, or
\* disappeared if they were there
Toggled(dir, ch) == (dir \ ch) \cup (ch \ dir)

\* devices are plugged or unplugged between two scans: at most one entry of
\* each directory appears or disappears
FsChange ==
    /\ fs_left > 0
    /\ spc \in {"policy", "wait"}
    /\ fs_left' = fs_left - 1
    /\ \E ids \in SUBSET IdEntries, paths \in SUBSET PathEntries :
          /\ Cardinality(ids) <= 1
          /\ Cardinality(paths) <= 1
          /\ ids \cup paths # {}
          /\ dir_id' = Toggled(dir_id, ids)
          /\ dir_path' = Toggled(dir_path, paths)
    /\ UNCHANGED <<args, tp_guess, kbd_guess, ok, waited, spc, exit_status, scan, scan_no,
                   tp_scan, kbd_scan, tp_why, kbd_why, first_sel, policy>>
    /\ UNCHANGED <<engineVars, udev, handles>>

\* the two scans a call of autodetect, or a policy, makes
FreshScan ==
    [id |-> ScanOfId[dir_id], ppath |-> ScanOfPath[dir_path]]

\* line 568: whether the paths are to be detected
WantsDetection ==
    \/ args.auto_detect
    \/ args.tp_path = EmptyString
    \/ args.kbd_path = EmptyString
    \/ equals_ci(args.tp_path, AUTO)
    \/ equals_ci(args.kbd_path, AUTO)

\* a call autodetect(tp_guess, kbd_guess) from the values tp and kbd: the
\* scans, the two guesses and ok, with the history of the call
CallAutodetect(tp, kbd) ==
    \E sc \in {FreshScan} :
        \E r \in {autodetect(tp, kbd, sc.id, sc.ppath, args.tp_matches, args.kbd_matches)} :
            /\ scan' = sc
            /\ scan_no' = scan_no + 1
            /\ tp_guess' = r.tp_out
            /\ kbd_guess' = r.kbd_out
            /\ tp_scan' = IF r.tp_out # tp THEN scan_no + 1 ELSE tp_scan
            /\ kbd_scan' = IF r.kbd_out # kbd THEN scan_no + 1 ELSE kbd_scan
            /\ tp_why' = r.tp_why
            /\ kbd_why' = r.kbd_why
            /\ ok' = r.ok

\* line 568 is false: both paths are given and --auto is not
S_paths_given ==
    /\ spc = "args"
    /\ ~WantsDetection
    /\ spc' = "root"
    /\ UNCHANGED <<args, dir_id, dir_path, fs_left, tp_guess, kbd_guess, ok, waited,
                   exit_status, scan, scan_no, tp_scan, kbd_scan, tp_why, kbd_why,
                   first_sel, policy>>
    /\ UNCHANGED <<engineVars, udev, handles>>

\* lines 568-572: tp_guess = args.tp_path; kbd_guess = args.kbd_path;
\* ok = autodetect(tp_guess, kbd_guess); if (!ok) the policy is looked up
S_autodetect ==
    /\ spc = "args"
    /\ WantsDetection
    /\ CallAutodetect(args.tp_path, args.kbd_path)
    /\ first_sel' = [tp_wanted  |-> (args.tp_path = EmptyString \/ equals_ci(args.tp_path, AUTO)),
                     kbd_wanted |-> (args.kbd_path = EmptyString \/ equals_ci(args.kbd_path, AUTO)),
                     tp_found   |-> tp_scan' # 0,
                     kbd_found  |-> kbd_scan' # 0]
    /\ spc' = IF ok' THEN "decide" ELSE "policy"
    /\ UNCHANGED <<args, dir_id, dir_path, fs_left, waited, exit_status, policy>>
    /\ UNCHANGED <<engineVars, udev, handles>>

\* FallbackTakes with the test of the capability left out
FallbackTakes_SuffixOnly(c, want_mouse) ==
    IF want_mouse
    THEN Len(c.base) >= 12 /\ SubSeq(c.base, Len(c.base) - 11, Len(c.base)) = SUFFIX_MOUSE
    ELSE Len(c.base) >= 10 /\ SubSeq(c.base, Len(c.base) - 9, Len(c.base)) = SUFFIX_KBD

\* the test of one candidate in the loops of lines 576-579
FallbackTakes(c, want_mouse) ==
    IF want_mouse
    THEN Len(c.base) >= 12 /\ SubSeq(c.base, Len(c.base) - 11, Len(c.base)) = SUFFIX_MOUSE
         /\ c.has_rel_xy
    ELSE Len(c.base) >= 10 /\ SubSeq(c.base, Len(c.base) - 9, Len(c.base)) = SUFFIX_KBD
         /\ c.has_keys

\* one loop of lines 576-579 over a catalog: the guess after it
FallbackLoop(guess, pool, want_mouse) ==
    IF guess = EmptyString /\ \E i \in 1..Len(pool) : FallbackTakes(pool[i], want_mouse)
    THEN pool[CHOOSE i \in 1..Len(pool) :
                  /\ FallbackTakes(pool[i], want_mouse)
                  /\ \A j \in 1..(i - 1) : ~FallbackTakes(pool[j], want_mouse)].path
    ELSE guess

\* lines 573-581: the fallback policy
S_fallback ==
    /\ spc = "policy"
    /\ to_lower(args.on_missing) = FALLBACK
    /\ LET sc == FreshScan
           tp == FallbackLoop(FallbackLoop(tp_guess, sc.id, TRUE), sc.ppath, TRUE)
           kb == FallbackLoop(FallbackLoop(kbd_guess, sc.id, FALSE), sc.ppath, FALSE)
       IN  /\ scan' = sc
           /\ tp_guess' = tp
           /\ kbd_guess' = kb
           /\ ok' = (tp # EmptyString /\ kb # EmptyString)
    /\ policy' = "fallback"
    /\ spc' = "decide"
    /\ UNCHANGED <<args, dir_id, dir_path, fs_left, waited, exit_status, scan_no, tp_scan,
                   kbd_scan, tp_why, kbd_why, first_sel>>
    /\ UNCHANGED <<engineVars, udev, handles>>

\* lines 582-584: the wait policy is entered: inotify_fd(), waited = 0
S_wait_enter ==
    /\ spc = "policy"
    /\ to_lower(args.on_missing) = WAIT
    /\ waited' = 0
    /\ policy' = "wait"
    /\ spc' = "wait"
    /\ UNCHANGED <<args, dir_id, dir_path, fs_left, tp_guess, kbd_guess, ok, exit_status,
                   scan, scan_no, tp_scan, kbd_scan, tp_why, kbd_why, first_sel>>
    /\ UNCHANGED <<engineVars, udev, handles>>

\* the test of line 585 with <= in place of <
WaitGoesOn_OneMore ==
    ~ok /\ (args.wait_secs = 0 \/ waited <= args.wait_secs)

\* while (!ok && (args.wait_secs == 0 || waited < args.wait_secs))
WaitGoesOn ==
    ~ok /\ (args.wait_secs = 0 \/ waited < args.wait_secs)

\* lines 585-589: one wake: wait_change_or_timeout returns on a
\* notification or after 1000 ms; waited += 1; ok = autodetect(...)
S_wake ==
    /\ spc = "wait"
    /\ WaitGoesOn
    /\ waited < MaxWakes \/ args.wait_secs # 0
    /\ waited' = waited + 1
    /\ CallAutodetect(tp_guess, kbd_guess)
    /\ UNCHANGED <<args, dir_id, dir_path, fs_left, spc, exit_status, first_sel, policy>>
    /\ UNCHANGED <<engineVars, udev, handles>>

\* lines 585 and 590: the loop is left; close(fdw)
S_wait_end ==
    /\ spc = "wait"
    /\ ~WaitGoesOn
    /\ spc' = "decide"
    /\ UNCHANGED <<args, dir_id, dir_path, fs_left, tp_guess, kbd_guess, ok, waited,
                   exit_status, scan, scan_no, tp_scan, kbd_scan, tp_why, kbd_why,
                   first_sel, policy>>
    /\ UNCHANGED <<engineVars, udev, handles>>

\* lines 599-607 and 610-618: one answer of the operator: the guess after it
Answer(guess, s, sc) ==
    IF s = EmptyString THEN guess
    ELSE IF Len(s) >= 3 /\ SubSeq(s, 1, 3) = ID_TAG
         THEN LET idx == parse_index_strict(SubSeq(s, 4, Len(s)))
              IN  IF idx >= 1 /\ idx <= Len(sc.id) THEN sc.id[idx].path ELSE guess
    ELSE IF Len(s) >= 5 /\ SubSeq(s, 1, 5) = PATH_TAG
         THEN LET idx == parse_index_strict(SubSeq(s, 6, Len(s)))
              IN  IF idx >= 1 /\ idx <= Len(sc.ppath) THEN sc.ppath[idx].path ELSE guess
    ELSE guess

\* lines 591-620: the interactive policy, standard input being a terminal
S_interactive ==
    /\ spc = "policy"
    /\ to_lower(args.on_missing) = INTERACTIVE
    /\ \E s1 \in InteractiveLines, s2 \in InteractiveLines :
          LET sc == FreshScan
              tp == Answer(tp_guess, s1, sc)
              kb == Answer(kbd_guess, s2, sc)
          IN  /\ scan' = sc
              /\ tp_guess' = tp
              /\ kbd_guess' = kb
              /\ ok' = (tp # EmptyString /\ kb # EmptyString)
    /\ policy' = "interactive"
    /\ spc' = "decide"
    /\ UNCHANGED <<args, dir_id, dir_path, fs_left, waited, exit_status, scan_no, tp_scan,
                   kbd_scan, tp_why, kbd_why, first_sel>>
    /\ UNCHANGED <<engineVars, udev, handles>>

\* lines 573-621: no branch of the policy is taken: --on-missing is fail or
\* names no policy, or it is interactive and standard input is no terminal
S_no_policy ==
    /\ spc = "policy"
    /\ to_lower(args.on_missing) \notin {FALLBACK, WAIT}
    /\ policy' = IF to_lower(args.on_missing) = FAIL THEN "fail"
                  ELSE IF to_lower(args.on_missing) = INTERACTIVE THEN "no terminal"
                  ELSE "none"
    /\ spc' = "decide"
    /\ UNCHANGED <<args, dir_id, dir_path, fs_left, tp_guess, kbd_guess, ok, waited,
                   exit_status, scan, scan_no, tp_scan, kbd_scan, tp_why, kbd_why,
                   first_sel>>
    /\ UNCHANGED <<engineVars, udev, handles>>

\* lines 622-625: if (!ok) return EXIT_FAILURE;
S_give_up ==
    /\ spc = "decide"
    /\ ~ok
    /\ spc' = "exit"
    /\ exit_status' = "EXIT_FAILURE"
    /\ UNCHANGED <<args, dir_id, dir_path, fs_left, tp_guess, kbd_guess, ok, waited, scan,
                   scan_no, tp_scan, kbd_scan, tp_why, kbd_why, first_sel, policy>>
    /\ UNCHANGED <<engineVars, udev, handles>>

\* lines 626-630: args.tp_path = tp_guess; args.kbd_path = kbd_guess;
S_accept ==
    /\ spc = "decide"
    /\ ok
    /\ args' = [args EXCEPT !.tp_path = tp_guess, !.kbd_path = kbd_guess]
    /\ spc' = "root"
    /\ UNCHANGED <<dir_id, dir_path, fs_left, tp_guess, kbd_guess, ok, waited, exit_status,
                   scan, scan_no, tp_scan, kbd_scan, tp_why, kbd_why, first_sel, policy>>
    /\ UNCHANGED <<engineVars, udev, handles>>

\* lines 631-638: usage() when a path is empty; geteuid() != 0 returns
\* EXIT_FAILURE; otherwise the two signal() calls
S_root ==
    /\ spc = "root"
    /\ \E root \in BOOLEAN :
          IF args.tp_path = EmptyString \/ args.kbd_path = EmptyString \/ ~root
          THEN spc' = "exit" /\ exit_status' = "EXIT_FAILURE"
          ELSE spc' = "uinput" /\ UNCHANGED exit_status
    /\ UNCHANGED <<args, dir_id, dir_path, fs_left, tp_guess, kbd_guess, ok, waited, scan,
                   scan_no, tp_scan, kbd_scan, tp_why, kbd_why, first_sel, policy>>
    /\ UNCHANGED <<engineVars, udev, handles>>

\* line 640, setup_uinput(): the open of /dev/uinput, the write of uidev or
\* UI_DEV_CREATE fails and the process exits, or the device is created
S_setup_uinput ==
    /\ spc = "uinput"
    /\ \E created \in BOOLEAN :
          IF created
          THEN udev' = "created" /\ spc' = "open_tp" /\ UNCHANGED exit_status
          ELSE spc' = "exit" /\ exit_status' = "EXIT_FAILURE" /\ UNCHANGED udev
    /\ UNCHANGED <<args, dir_id, dir_path, fs_left, tp_guess, kbd_guess, ok, waited, scan,
                   scan_no, tp_scan, kbd_scan, tp_why, kbd_why, first_sel, policy>>
    /\ UNCHANGED <<engineVars, handles>>

\* open_evdev(path), lines 642-654: the handle, or std::exit(EXIT_FAILURE)
\* when open() or libevdev_new_from_fd() fails
OpenEvdev(handle, next) ==
    \E opened \in BOOLEAN :
        IF opened
        THEN handles' = handles \cup {handle} /\ spc' = next /\ UNCHANGED exit_status
        ELSE spc' = "exit" /\ exit_status' = "EXIT_FAILURE" /\ UNCHANGED handles

\* line 656: libevdev* tp_dev = open_evdev(args.tp_path);
S_open_tp ==
    /\ spc = "open_tp"
    /\ OpenEvdev("tp_dev", "open_kbd")
    /\ UNCHANGED <<args, dir_id, dir_path, fs_left, tp_guess, kbd_guess, ok, waited, scan,
                   scan_no, tp_scan, kbd_scan, tp_why, kbd_why, first_sel, policy>>
    /\ UNCHANGED <<engineVars, udev>>

\* line 657: libevdev* kbd_dev = open_evdev(args.kbd_path); the engine starts
S_open_kbd ==
    /\ spc = "open_kbd"
    /\ OpenEvdev("kbd_dev", "engine")
    /\ UNCHANGED <<args, dir_id, dir_path, fs_left, tp_guess, kbd_guess, ok, waited, scan,
                   scan_no, tp_scan, kbd_scan, tp_why, kbd_why, first_sel, policy>>
    /\ UNCHANGED <<engineVars, udev>>

startup ==
    \/ S_paths_given
    \/ S_autodetect
    \/ S_fallback
    \/ S_wait_enter
    \/ S_wake
    \/ S_wait_end
    \/ S_interactive
    \/ S_no_policy
    \/ S_give_up
    \/ S_accept
    \/ S_root
    \/ S_setup_uinput
    \/ S_open_tp
    \/ S_open_kbd

StartNext ==
    \/ FsChange
    \/ startup

StartSpec == StartInit /\ [][StartNext]_vars

(***************************************************************************)
(* Properties.                                                             *)
(***************************************************************************)
\* the entries i..j of a log, for j within the log
Slice(log, i, j) == [k \in 1..(j - i + 1) |-> log[k + i - 1]]

\* s is six axis writes, one for each of the six axes, all with value 0
IsSixZeros(s) ==
    /\ Len(s) = 6
    /\ \A i \in 1..6 : s[i].type = "EV_ABS" /\ s[i].value = 0
    /\ {s[i].code : i \in 1..6} = {"ABS_X", "ABS_Y", "ABS_Z", "ABS_RX", "ABS_RY", "ABS_RZ"}

\* the translator is past the mode test of the event it is translating
InNewEmission == mpc = "emit"

\* C1: when the mode resolved for a translated event differs from the mode
\* recorded for the previous translated event, then by the time the
\* translator reaches the axis writes of the event it has written a zero of
\* all six axes as the first six writes of the event and has recorded the
\* new mode; until then it has written nothing but zeros and syncs.
C1_ZeroFrameBeforeNewMode ==
    /\ (InNewEmission /\ mode # prev_mode) =>
          /\ last_mode = mode
          /\ Len(wlog["main"]) >= 6
          /\ IsSixZeros(Slice(wlog["main"], 1, 6))
    /\ mpc = "zero" =>
          \A i \in 1..Len(wlog["main"]) :
              wlog["main"][i].type = "EV_SYN" \/ wlog["main"][i].value = 0
    /\ (InNewEmission /\ mode = prev_mode) => last_mode = mode

\* C1 witness: a translated event in Tilt after the mode recorded was Orbit
\* has written its zero frame and its axis pair
C1_Witness ==
    /\ mpc = "emit"
    /\ wq["main"] = <<>>
    /\ mode = "TILT"
    /\ prev_mode = "ORBIT"
    /\ Len(wlog["main"]) > 6

\* a zero_all_axes call that has returned, and the writes it made
ZeroCallReturned(c) ==
    \/ c = "main" /\ mpc \in {"zero", "td_zero"} /\ wq["main"] = <<>>
    \/ c = "kbd" /\ kpc = "zero" /\ wq["kbd"] = <<>>

\* the writes to the synthetic device among the entries of a log
IsDeviceWrite(e) == e.type \in {"EV_ABS", "EV_SYN"}

DeviceWrites(log) == SelectSeq(log, IsDeviceWrite)

\* C2: every call of zero_all (mode transition, toggle to Idle, teardown)
\* writes exactly six axis events, one per axis and all 0, with no sync
\* between them, followed by exactly one synchronization event.
C2_ZeroAllSixZerosOneSync ==
    \A c \in {"main", "kbd"} :
        ZeroCallReturned(c) =>
            /\ Len(DeviceWrites(wlog[c])) = 7
            /\ IsSixZeros(Slice(DeviceWrites(wlog[c]), 1, 6))
            /\ DeviceWrites(wlog[c])[7] = Event("EV_SYN", "SYN_REPORT", 0)

\* what the code does instead: the six zeros are followed by two syncs
C2_ZeroAllSixZerosTwoSyncs ==
    \A c \in {"main", "kbd"} :
        ZeroCallReturned(c) =>
            /\ Len(DeviceWrites(wlog[c])) = 8
            /\ IsSixZeros(Slice(DeviceWrites(wlog[c]), 1, 6))
            /\ DeviceWrites(wlog[c])[7] = Event("EV_SYN", "SYN_REPORT", 0)
            /\ DeviceWrites(wlog[c])[8] = Event("EV_SYN", "SYN_REPORT", 0)

\* the translator has made both emit calls of the event it is translating
PairWritten == mpc = "emit" /\ wq["main"] = <<>>

\* the two axis writes of a written pair: the last three device writes of
\* the iteration are the two axis events and the sync
PairFirst == DeviceWrites(wlog["main"])[Len(DeviceWrites(wlog["main"])) - 2]

PairSecond == DeviceWrites(wlog["main"])[Len(DeviceWrites(wlog["main"])) - 1]

\* d * g clamped to [-5000, 5000] as a number, with no width: the nearest
\* bound when the product is out of range
ClampedProduct(d, g) ==
    IF d = 0 \/ g = 0 THEN 0
    ELSE IF Abs(d) <= 5000 \div Abs(g) THEN d * g
    ELSE Sign(d) * Sign(g) * 5000

\* every axis value in a log lies in [-5000, 5000]
AxisValuesInRange(log) ==
    \A i \in 1..Len(log) :
        log[i].type = "EV_ABS" => log[i].value >= -5000 /\ log[i].value <= 5000

\* C3: every axis value written lies in [-5000, 5000], and the values of a
\* translated event are the scaled deltas clamped to the nearest bound, with
\* the sign of the mapping, whatever the delta and the gain.
C3_ClampedNeverWrapped ==
    /\ AxisValuesInRange(wlog["main"])
    /\ AxisValuesInRange(wlog["kbd"])
    /\ \A a \in AxisSet : axes[a] >= -5000 /\ axes[a] <= 5000
    /\ PairWritten =>
          /\ PairFirst.value = (IF mode = "PAN" THEN 1 ELSE -1)
                                 * ClampedProduct(EventDelta(ev)[1], gain)
          /\ PairSecond.value = -ClampedProduct(EventDelta(ev)[2], gain)

\* the part of C3 the code keeps: the range
C3_RangeOnly ==
    /\ AxisValuesInRange(wlog["main"])
    /\ AxisValuesInRange(wlog["kbd"])
    /\ \A a \in AxisSet : axes[a] >= -5000 /\ axes[a] <= 5000

\* dx and dy of an event as line 697-698 take them: the value under the
\* X code, the value under the Y code, 0 otherwise
RawDx(e) == IF e.code = "REL_X" THEN e.value ELSE 0

RawDy(e) == IF e.code = "REL_Y" THEN e.value ELSE 0

\* the event main holds has dx and dy both of absolute value below 2
EventBelowDeadzone ==
    /\ rc = "OK"
    /\ RawDx(ev) > -2 /\ RawDx(ev) < 2
    /\ RawDy(ev) > -2 /\ RawDy(ev) < 2

\* C4: for a trackpoint event whose dx and dy both have absolute value below
\* 2 the translator never goes past the deadzone test, writes nothing to the
\* synthetic device and leaves the recorded mode as it was when the event
\* was read, whatever the modifier keys resolve to.
C4_DeadzoneNoEmissionNoChange ==
    EventBelowDeadzone =>
        /\ mpc \in {"gate", "continue"}
        /\ wlog["main"] = <<>>
        /\ wq["main"] = <<>>
        /\ last_mode = prev_mode

\* C4 witness: a grabbed relative event of value 1 was skipped by the
\* deadzone while Shift is down and the recorded mode is Orbit
C4_Witness ==
    /\ mpc = "continue"
    /\ ev = Event("EV_REL", "REL_X", 1)
    /\ "KEY_LEFTSHIFT" \in keys_down
    /\ last_mode = "ORBIT"

\* the translator is translating the event it holds: it is past the gate
\* and the deadzone
Translating == mpc \in {"lock", "snap", "mode", "zero", "emit"}

\* C5 as claimed: the translator translates, and so writes for, only a
\* relative-motion event that was read while GrabState was Grabbed.
C5_OnlyEventsReadWhileGrabbed ==
    /\ Translating => (rc = "OK" /\ ev.type = "EV_REL" /\ ev_grabbed)
    /\ (mpc \in {"gate", "continue"} \/ mpc = "loop") => wlog["main"] = <<>>

\* C5 as amended: the translator translates, and so writes for, only a
\* relative-motion event for which its test of line 696, made after the read,
\* found GrabState Grabbed; in every other position of its loop it has
\* written nothing for the event it holds.
C5_OnlyEventsFoundGrabbed ==
    /\ Translating => (rc = "OK" /\ ev.type = "EV_REL" /\ gate_grabbed)
    /\ (mpc \in {"gate", "continue"} \/ mpc = "loop") => wlog["main"] = <<>>

\* C5 witness: an event read while Idle is being written for, the toggle to
\* Grabbed having landed between the read and the test
C5_Witness ==
    /\ mpc = "emit"
    /\ wlog["main"] # <<>>
    /\ ~ev_grabbed
    /\ gate_grabbed

\* the event kbd_thread holds is a fresh press of the hotkey
FreshHotkeyPress ==
    kev.type = "EV_KEY" /\ kev.code = "KEY_F8" /\ kev.value = 1

\* the changes of grabbed kbd_thread has made in its current iteration
IsStore(e) == e.type = "STORE"

Flips == SelectSeq(wlog["kbd"], IsStore)

\* C6: GrabState changes at most once in an iteration of the Modifier
\* Tracker, and only for a key event with the hotkey code and value 1; once
\* every event read has been handled GrabState is Grabbed exactly when the
\* fresh hotkey presses read are odd in number; the change to Grabbed comes
\* right after the capture of the trackpoint, the change to Idle right after
\* its release and before the six zero writes of the zero frame.
C6_ToggleOnFreshPressOnly ==
    /\ Len(Flips) <= 1
    /\ Len(Flips) = 1 => FreshHotkeyPress
    /\ kpc \in {"loop", "exit"} => (grabbed = presses_odd)
    /\ kpc = "unlock" =>
          /\ FreshHotkeyPress
          /\ Len(Flips) = 1
          /\ grabbed = presses_odd
          /\ grabbed =>
                wlog["kbd"] = <<Event("IOCTL", "GRAB", 0), Event("STORE", "grabbed", 1),
                                Event("COUT", "[toggle] ON", 0)>>
          /\ ~grabbed =>
                /\ Len(wlog["kbd"]) >= 8
                /\ Slice(wlog["kbd"], 1, 2) =
                      <<Event("IOCTL", "UNGRAB", 0), Event("STORE", "grabbed", 0)>>
                /\ IsSixZeros(Slice(wlog["kbd"], 3, 8))
                /\ \E i \in 9..Len(wlog["kbd"]) : wlog["kbd"][i].type = "EV_SYN"
                /\ \A i \in 9..Len(wlog["kbd"]) : wlog["kbd"][i].type \in {"EV_SYN", "COUT"}

\* C6 witness: a second fresh press has taken GrabState back to Idle, with
\* the release and the zero frame done
C6_Witness ==
    /\ kpc = "unlock"
    /\ ~grabbed
    /\ ~presses_odd
    /\ Len(wlog["kbd"]) > 8

\* C7: the mode of a translated event is Tilt when a Shift key is in the
\* pressed-key set at the snapshot, whether or not a Ctrl key is; Pan when no
\* Shift key but a Ctrl key is; Orbit when neither is.
C7_ModeFromShiftCtrl ==
    mpc \in {"zero", "emit"} =>
        mode = (IF "KEY_LEFTSHIFT" \in snap_keys \/ "KEY_RIGHTSHIFT" \in snap_keys
                THEN "TILT"
                ELSE IF "KEY_LEFTCTRL" \in snap_keys \/ "KEY_RIGHTCTRL" \in snap_keys
                     THEN "PAN"
                     ELSE "ORBIT")

\* C7 witness: an event is translated in Tilt with a Shift key and a Ctrl
\* key both in the snapshot
C7_Witness ==
    /\ mpc = "emit"
    /\ mode = "TILT"
    /\ snap_keys \cap {"KEY_LEFTSHIFT", "KEY_RIGHTSHIFT"} # {}
    /\ snap_keys \cap {"KEY_LEFTCTRL", "KEY_RIGHTCTRL"} # {}

\* v limited to [-5000, 5000]
Limited(v) == IF v < -5000 THEN -5000 ELSE IF v > 5000 THEN 5000 ELSE v

\* the axis pair of a mode, in the order of the writes
AxisPair(m) ==
    IF m = "TILT" THEN <<"ABS_RY", "ABS_Y">>
    ELSE IF m = "PAN" THEN <<"ABS_X", "ABS_Z">>
    ELSE <<"ABS_RZ", "ABS_RX">>

\* the values clamp(-v) can be: for v the least int, where -v is not an int,
\* one of the two bounds
LimitedNeg(v) == IF v = -2147483647 - 1 THEN {-5000, 5000} ELSE {Limited(-v)}

\* C8: once both emit calls of a translated event are made, the last three
\* writes to the device are the first axis of the mode, the second axis of
\* the mode, and one sync: TILT rot-Y = clamp(-sx), Y = clamp(-sy); PAN
\* X = clamp(sx), Z = clamp(-sy); ORBIT rot-Z = clamp(-sx), rot-X =
\* clamp(-sy). They are the only writes of the event when the mode is the
\* one of the event before, and are preceded only by the zeros and syncs of
\* the zero frame when it is not. REL_X = 100 with gain 60 in ORBIT writes
\* rot-Z = -5000 then rot-X = 0.
C8_TwoAxisWritesThenSync ==
    PairWritten =>
        LET dw == DeviceWrites(wlog["main"])
            n  == Len(dw)
        IN  /\ n >= 3
            /\ dw[n] = Event("EV_SYN", "SYN_REPORT", 0)
            /\ dw[n - 2].type = "EV_ABS"
            /\ dw[n - 2].code = AxisPair(mode)[1]
            /\ dw[n - 2].value \in (IF mode = "PAN" THEN {Limited(sx)} ELSE LimitedNeg(sx))
            /\ dw[n - 1].type = "EV_ABS"
            /\ dw[n - 1].code = AxisPair(mode)[2]
            /\ dw[n - 1].value \in LimitedNeg(sy)
            /\ (mode = prev_mode) => n = 3
            /\ (mode # prev_mode) =>
                  /\ n > 9
                  /\ IsSixZeros(Slice(dw, 1, 6))
                  /\ \A i \in 7..(n - 3) : dw[i].type = "EV_SYN"
            /\ (gain = 60 /\ ev = Event("EV_REL", "REL_X", 100) /\ mode = "ORBIT") =>
                  /\ sx = 6000
                  /\ sy = 0
                  /\ dw[n - 2] = Event("EV_ABS", "ABS_RZ", -5000)
                  /\ dw[n - 1] = Event("EV_ABS", "ABS_RX", 0)

\* C8 witness: REL_X = 100 with gain 60 has been translated in ORBIT
C8_Witness ==
    /\ PairWritten
    /\ gain = 60
    /\ ev = Event("EV_REL", "REL_X", 100)
    /\ mode = "ORBIT"

\* C9: a trackpoint motion of dx = 3, dy = 3 with gain 1 in ORBIT is written
\* as rot-Z = -2 followed by rot-X = -2.
C9_DiagonalScenario ==
    (PairWritten /\ ev_frame = <<3, 3>> /\ gain = 1 /\ mode = "ORBIT") =>
        /\ PairFirst = Event("EV_ABS", "ABS_RZ", -2)
        /\ PairSecond = Event("EV_ABS", "ABS_RX", -2)

\* what the code does instead: each event of the report carries one of the
\* two deltas, so it is never scaled: the pair written is (-3, 0) or (0, -3)
C9_OneDeltaPerEvent ==
    /\ mpc \in {"lock", "snap", "mode", "zero", "emit"} =>
          EventDelta(ev)[1] = 0 \/ EventDelta(ev)[2] = 0
    /\ (PairWritten /\ ev_frame = <<3, 3>> /\ gain = 1 /\ mode = "ORBIT") =>
          \/ PairFirst.value = -3 /\ PairSecond.value = 0
          \/ PairFirst.value = 0 /\ PairSecond.value = -3

\* the steps of the teardown, in the order they must be made
TeardownOrder == <<"ungrab", "zero", "destroy", "join", "free">>

IsTeardownStep(x) == x \in {"ungrab", "zero", "destroy", "join", "free"}

StepsDone == SelectSeq(td_log, IsTeardownStep)

\* the steps that are done when main is at each place of the teardown
StepsAt(pc) ==
    IF pc = "td_ungrab" THEN 0
    ELSE IF pc = "td_zero" THEN 1
    ELSE IF pc = "td_destroy" THEN 2
    ELSE IF pc \in {"td_close", "td_join"} THEN 3
    ELSE IF pc = "td_free" THEN 4
    ELSE IF pc = "done" THEN 5
    ELSE 0

\* C10: the teardown starts only once running is false, and its steps are
\* made once each in the order ungrab, zero, destroy, join, free: the steps
\* made so far are always the first steps of that order, all five when main
\* returns, and each has had its effect (the release is followed by the six
\* zero writes, the device is destroyed, kbd_thread has left its loop, the
\* handles are freed), whatever grabbed is and whether kbd_thread or main
\* left its loop first.
C10_TeardownOrder ==
    /\ Len(StepsDone) = StepsAt(mpc)
    /\ StepsDone = Slice(TeardownOrder, 1, Len(StepsDone))
    /\ td_log # <<>> => ~running
    /\ mpc \in {"td_ungrab", "td_zero", "td_destroy", "td_close", "td_join",
                "td_free", "done"} => ~running
    /\ Len(StepsDone) >= 1 => wlog["main"][1] = Event("IOCTL", "UNGRAB", 0)
    /\ Len(StepsDone) >= 2 =>
          /\ Len(wlog["main"]) >= 8
          /\ IsSixZeros(Slice(wlog["main"], 2, 7))
          /\ \A i \in 8..Len(wlog["main"]) : wlog["main"][i].type = "EV_SYN"
    /\ (Len(StepsDone) >= 3) = (udev # "created")
    /\ Len(StepsDone) >= 4 => kpc = "exit"
    /\ (Len(StepsDone) = 5) = (handles = {})

\* C10 witness: main has returned after a teardown started while grabbed
C10_Witness ==
    /\ mpc = "done"
    /\ grabbed
    /\ Len(td_log) = 6

\* the process has left both loops and finished the teardown
Terminated == mpc = "done" /\ kpc = "exit" /\ handles = {} /\ udev = "closed"

\* what sigint_handler may change: running, and nothing else of the program
HandlerOnlySetsFlag ==
    (running /\ ~running') =>
        UNCHANGED <<gain, keys_down, keys_mtx, grabbed, last_mode, tp_grab, udev, axes,
                    handles, mpc, rc, ev, sx, sy, shift, ctrl, mode, kpc, kev, wq, wlog>>

\* C11: once running is false, under fair scheduling kbd_thread leaves its
\* loop, main leaves its loop and the teardown runs to its end, whatever is
\* pending on the devices and wherever the two threads are in an iteration;
\* the step that clears running changes nothing else of the program.
C11_ShutdownTerminates ==
    /\ (~running) ~> Terminated
    /\ [][HandlerOnlySetsFlag]_vars

\* C11 witness: the process has terminated after a signal that arrived
\* while the trackpoint was grabbed
C11_Witness == Terminated /\ ~running /\ grabbed

\* ---------------------------------------------------------------------
\* Startup: the synthetic device, the selection and the policies
\* ---------------------------------------------------------------------

\* C12: the synthetic device is created only after both physical devices
\* were opened, and no path to the exit of the process leaves it created.
C12_CreatedAfterOpensDestroyedBeforeExit ==
    /\ udev = "created" => {"tp_dev", "kbd_dev"} \subseteq handles
    /\ spc = "exit" => udev # "created"

\* what the specification asks of a candidate of a class: its name ends
\* with the suffix of the class and its probe found the capability
Qualifies(c, want_mouse) ==
    IF want_mouse
    THEN EndsWith(c.base, SUFFIX_MOUSE) /\ c.has_rel_xy
    ELSE EndsWith(c.base, SUFFIX_KBD) /\ c.has_keys

\* the positions of the qualifying candidates of a catalog
Qualifying(pool, want_mouse) ==
    {i \in 1..Len(pool) : Qualifies(pool[i], want_mouse)}

\* the rules given for a class
RulesOf(want_mouse) ==
    IF want_mouse THEN args.tp_matches ELSE args.kbd_matches

\* a path was selected by the latest call of autodetect and no policy has
\* assigned paths since
SelectedAtLastScan(n) ==
    n # 0 /\ n = scan_no /\ policy \notin {"fallback", "interactive"}

\* C13: on every scanned catalog, for each class and the rules given,
\* choose_ordered returns the path of a candidate that has the suffix of the
\* class and passed its capability probe, and returns the empty string
\* exactly when no candidate qualifies; a path autodetect has just selected
\* is the path of a qualifying candidate of the scan.
C13_SelectionQualifies ==
    scan_no > 0 =>
        /\ \A w \in BOOLEAN : \A pool \in {scan.id, scan.ppath} :
               \E r \in {choose_ordered(pool, w, RulesOf(w), EmptyString)} :
                   /\ (r.path = EmptyString) <=> (Qualifying(pool, w) = {})
                   /\ r.path # EmptyString =>
                          \E i \in Qualifying(pool, w) : pool[i].path = r.path
        /\ SelectedAtLastScan(tp_scan) =>
               \E pool \in {scan.id, scan.ppath} :
                   \E i \in Qualifying(pool, TRUE) : pool[i].path = tp_guess
        /\ SelectedAtLastScan(kbd_scan) =>
               \E pool \in {scan.id, scan.ppath} :
                   \E i \in Qualifying(pool, FALSE) : pool[i].path = kbd_guess

\* a candidate that fails the capability probe matches a rule, and the
\* trackpoint selected is another candidate
C13_Witness ==
    /\ SelectedAtLastScan(tp_scan)
    /\ \E i \in 1..Len(scan.id) : \E k \in 1..Len(args.tp_matches) :
          /\ ~Qualifies(scan.id[i], TRUE)
          /\ args.tp_matches[k] # EmptyString
          /\ Hit(scan.id[i], args.tp_matches[k])
          /\ tp_guess \notin {EmptyString, scan.id[i].path}

\* the least number of a non-empty set of numbers
Least(S) == CHOOSE x \in S : \A y \in S : x <= y

\* the entries of a list, among those numbered in K, that some qualifying
\* candidate contains in its base name or its reported name
MatchingEntries(list, K, pool, Q) ==
    {k \in K : \E i \in Q : Hit(pool[i], list[k])}

\* the first qualifying candidate, in the order of the catalog, that
\* contains r
FirstWith(pool, Q, r) ==
    Least({i \in Q : Hit(pool[i], r)})

\* the precedence of the selection among the qualifying candidates Q, not
\* empty: R the rules that match, W the keywords that match
PrecedenceAmong(pool, Q, rules, kws, R, W) ==
    IF R # {}
    THEN Chosen(pool[FirstWith(pool, Q, rules[Least(R)])].path,
                <<"rule", Least(R), rules[Least(R)]>>)
    ELSE IF W # {}
         THEN Chosen(pool[FirstWith(pool, Q, kws[Least(W)])].path,
                     <<"keyword", kws[Least(W)]>>)
         ELSE Chosen(pool[Least(Q)].path, <<"first capable in order">>)

\* the selection that rule over keyword over first-capable gives, K being
\* the numbers of the rules that are tried
PrecedenceOver(pool, Q, rules, kws, K) ==
    IF Q = {} THEN Chosen(EmptyString, EmptyString)
    ELSE PrecedenceAmong(pool, Q, rules, kws, MatchingEntries(rules, K, pool, Q),
                         MatchingEntries(kws, 1..Len(kws), pool, Q))

PrecedenceChoice(pool, want_mouse, rules, K) ==
    PrecedenceOver(pool, Qualifying(pool, want_mouse), rules,
                   IF want_mouse THEN tp_kws ELSE kb_kws, K)

\* the numbers of the rules that are not the empty string
NonEmptyRules(rules) ==
    {k \in 1..Len(rules) : rules[k] # EmptyString}

ClassSelected(wanted, n) ==
    /\ policy \notin {"fallback", "interactive"}
    /\ \/ scan_no = 1 /\ wanted
       \/ n # 0 /\ n = scan_no

\* by-id before by-path for one class: guess and why are what the class was
\* left with
PrimaryFirst(want_mouse, guess, why) ==
    \E p \in {choose_ordered(scan.id, want_mouse, RulesOf(want_mouse), EmptyString)} :
        \E q \in {choose_ordered(scan.ppath, want_mouse, RulesOf(want_mouse), EmptyString)} :
            /\ Qualifying(scan.id, want_mouse) # {} =>
                   guess = p.path /\ why = p.reason
            /\ Qualifying(scan.id, want_mouse) = {}
                  /\ Qualifying(scan.ppath, want_mouse) # {} =>
                   guess = q.path /\ why = q.reason

\* C15: for each class, autodetect leaves the by-id selection whenever
\* by-id holds a qualifying candidate, whatever by-path holds, and the
\* by-path selection only when by-id holds none; the result for a class
\* depends on the scan and the rules of that class alone.
C15_PrimaryBeforeSecondary ==
    scan_no > 0 =>
        /\ ClassSelected(first_sel.tp_wanted, tp_scan) =>
               PrimaryFirst(TRUE, tp_guess, tp_why)
        /\ ClassSelected(first_sel.kbd_wanted, kbd_scan) =>
               PrimaryFirst(FALSE, kbd_guess, kbd_why)

\* the trackpoint comes from by-id by the keyword logitech while by-path
\* holds a qualifying candidate that matches the first keyword
C15_Witness ==
    /\ scan_no = 1
    /\ ClassSelected(first_sel.tp_wanted, tp_scan)
    /\ \E i \in Qualifying(scan.id, TRUE) : scan.id[i].path = tp_guess
    /\ tp_why = <<"keyword", tp_kws[6]>>
    /\ \E j \in Qualifying(scan.ppath, TRUE) : Hit(scan.ppath[j], tp_kws[1])
    /\ kbd_scan = 1

\* the first selection left a class that was to be detected without a
\* qualifying candidate
LeftUnresolved ==
    \/ first_sel.tp_wanted /\ ~first_sel.tp_found
    \/ first_sel.kbd_wanted /\ ~first_sel.kbd_found

\* the branches of the policy that carry out --on-missing: every branch for
\* a value that names no policy, and for interactive also the refusal to
\* prompt without a terminal
PoliciesFor(on_missing) ==
    IF to_lower(on_missing) = FAIL THEN {"fail"}
    ELSE IF to_lower(on_missing) = FALLBACK THEN {"fallback"}
    ELSE IF to_lower(on_missing) = WAIT THEN {"wait"}
    ELSE IF to_lower(on_missing) = INTERACTIVE THEN {"interactive", "no terminal"}
    ELSE {"none", "fail", "fallback", "wait", "interactive", "no terminal"}

\* the paths of the candidates the two directories can hold
CandidatePaths == {c.path : c \in AllCandidates}

\* C16: when the first selection leaves a class that was to be detected
\* without a qualifying candidate, the process goes past the policy only
\* after the branch of the configured policy has run, fail ends in a failure
\* exit, and the engine starts only with paths that are a device path given
\* by the operator or the path of a candidate.
C16_PolicyAppliedBeforeGivingUp ==
    /\ (scan_no > 0 /\ LeftUnresolved /\ spc \notin {"args", "policy"}) =>
           policy \in PoliciesFor(args.on_missing)
    /\ policy = "fail" =>
           spc \in {"decide", "exit"} /\ (spc = "exit" => exit_status = "EXIT_FAILURE")
    /\ spc = "engine" =>
           /\ args.tp_path \in {OPERATOR_TP} \cup CandidatePaths
           /\ args.kbd_path \in {OPERATOR_KBD} \cup CandidatePaths

Resolved(guess) ==
    guess # EmptyString /\ to_lower(guess) # AUTO

\* the first qualifying candidate of a scan, by-id before by-path, or the
\* empty string
FirstQualifyingPath(sc, want_mouse) ==
    IF Qualifying(sc.id, want_mouse) # {}
    THEN sc.id[Least(Qualifying(sc.id, want_mouse))].path
    ELSE IF Qualifying(sc.ppath, want_mouse) # {}
         THEN sc.ppath[Least(Qualifying(sc.ppath, want_mouse))].path
         ELSE EmptyString

\* what the fallback policy is to do with one class on the scan sc
FallbackRelaxes(sc, want_mouse, before, after) ==
    IF Resolved(before) THEN after = before
    ELSE IF FirstQualifyingPath(sc, want_mouse) # EmptyString
         THEN after = FirstQualifyingPath(sc, want_mouse)
         ELSE ~Resolved(after)

\* the step of the fallback policy does what is asked of it
FallbackStepRelaxes ==
    (policy # "fallback" /\ policy' = "fallback") =>
        /\ FallbackRelaxes(scan', TRUE, tp_guess, tp_guess')
        /\ FallbackRelaxes(scan', FALSE, kbd_guess, kbd_guess')
        /\ ok' = (Resolved(tp_guess') /\ Resolved(kbd_guess'))

\* C18: the fallback policy gives each class that selection left
\* unresolved the first candidate, by-id before by-path and in sorted order,
\* that has the suffix and the capability of the class, whatever the rules
\* and keywords; it leaves a resolved class unchanged and succeeds exactly
\* when both classes are resolved after it.
C18_FallbackFirstQualifying == [][FallbackStepRelaxes]_vars

\* the path the full selection of a class gives on the scan sc: by-id
\* first, then by-path, or the empty string
FullSelection(sc, want_mouse) ==
    SecondChoice(choose_ordered(sc.id, want_mouse, RulesOf(want_mouse), EmptyString),
                 sc.ppath, want_mouse, RulesOf(want_mouse)).path

\* C19: when the wait policy has ended in success, the path of each class
\* that was to be detected is the one the full selection gives on the
\* catalog scanned at the final wake, and so the path of a candidate that
\* catalog holds.
C19_PathsFromFinalScan ==
    (policy = "wait" /\ ok /\ spc = "decide") =>
        /\ first_sel.tp_wanted =>
               /\ tp_guess = FullSelection(scan, TRUE)
               /\ \E pool \in {scan.id, scan.ppath} :
                      \E i \in 1..Len(pool) : pool[i].path = tp_guess
        /\ first_sel.kbd_wanted =>
               /\ kbd_guess = FullSelection(scan, FALSE)
               /\ \E pool \in {scan.id, scan.ppath} :
                      \E i \in 1..Len(pool) : pool[i].path = kbd_guess

\* ---------------------------------------------------------------------
\* The engine: the state shared by the two threads
\* ---------------------------------------------------------------------

\* kbd_thread holds the mutex at each of its accesses: the writes of
\* keys_down and grabbed, and the test of grabbed at line 676
KbdAccessesLocked ==
    /\ (keys_down' # keys_down \/ grabbed' # grabbed) => keys_mtx = "kbd"
    /\ (kpc = "update" /\ kpc' # "update") => keys_mtx = "kbd"

\* main holds the mutex when it reads keys_down, lines 717-719
MainSnapshotLocked ==
    (mpc = "snap" /\ mpc' # "snap") => keys_mtx = "main"

\* main holds the mutex when line 696 reads grabbed, which it does when
\* rc == 0
MainGateLocked ==
    (mpc = "gate" /\ mpc' # "gate" /\ rc = "OK") => keys_mtx = "main"

\* C20: every step of either thread that reads or writes keys_down or
\* grabbed is taken while that thread holds keys_mtx; in particular main
\* holds it when it reads grabbed.
C20_SharedStateUnderMutex ==
    [][KbdAccessesLocked /\ MainSnapshotLocked /\ MainGateLocked]_vars

\* the step appends to the log of context c an operation on a device or on
\* the standard output: a grab or ungrab, a write() or a log line
IoStep(c) ==
    /\ Len(wlog'[c]) > Len(wlog[c])
    /\ \E i \in (Len(wlog[c]) + 1)..Len(wlog'[c]) : wlog'[c][i].type # "STORE"

\* the step of a thread that reads its device and goes on with the event
ReadStep(c) ==
    IF c = "kbd" THEN kpc = "loop" /\ kpc' = "lock"
    ELSE mpc = "loop" /\ mpc' = "gate"

\* C21: no step of a thread that reads a device, grabs or ungrabs the
\* trackpoint, writes to the synthetic device or writes a log line is taken
\* while that thread holds keys_mtx.
C21_NoIoUnderMutex ==
    [][\A c \in {"main", "kbd"} : (IoStep(c) \/ ReadStep(c)) => keys_mtx # c]_vars

\* a step of main: of its loop or of its teardown
MainStep ==
    \/ mpc' # mpc
    \/ wq'["main"] # wq["main"]
    \/ wlog'["main"] # wlog["main"]
    \/ mainLocals' # mainLocals

\* C22: grabbed and keys_down are changed only by steps of kbd_thread, made
\* for the key event it holds; every step of the translator loop and of the
\* teardown leaves both unchanged.
C22_OnlyKbdThreadWrites ==
    [][/\ MainStep => UNCHANGED <<grabbed, keys_down>>
       /\ (grabbed' # grabbed \/ keys_down' # keys_down) =>
              kpc \in {"update", "set_false", "set_true"} /\ kpc' # kpc]_vars

\* the teardown has run up to the freeing of the handles after a
\* translation, and the toggle and the keys held are as kbd_thread left them
C22_Witness ==
    /\ mpc = "td_free"
    /\ grabbed
    /\ keys_down # {}
    /\ last_mode # "ORBIT"

\* the step is one write() call of context c on the synthetic device
WriteStep(c) ==
    wq[c] # <<>> /\ wq'[c] = Tail(wq[c])

\* C23: every write() call on the synthetic device, by either thread, is
\* made while the device exists: none follows UI_DEV_DESTROY or close(ufd).
C23_NoWriteAfterDestroy ==
    [][\A c \in {"main", "kbd"} : WriteStep(c) => udev = "created"]_vars

\* C24: once the teardown has issued its ungrab the trackpoint stays
\* ungrabbed: no later step captures it again.
C24_NoGrabAfterTeardownUngrab ==
    td_log # <<>> => ~tp_grab

\* kbd_thread is between the hotkey test of line 675 and the end of the
\* toggle
ToggleInProgress ==
    kpc \in {"grab", "set_true", "ungrab", "set_false", "zero", "unlock"}

\* C25: whenever grabbed is false and kbd_thread is not in a toggle, the
\* last value written to each of the six axes of the synthetic device is 0.
C25_IdleAxesZero ==
    (~grabbed /\ ~ToggleInProgress) => \A a \in AxisSet : axes[a] = 0

\* C26: an event gives at most one non-zero delta, so the test dx && dy of
\* line 704 is false for every event that passes the gate, at most one of
\* sx and sy is non-zero, and of the two axis values written for one event
\* at least one is 0.
C26_OneAxisPerEvent ==
    /\ (mpc = "gate" /\ Gate(rc, grabbed, ev)) =>
           ~(Deadzone(RawDx(ev)) # 0 /\ Deadzone(RawDy(ev)) # 0)
    /\ mpc \in {"lock", "snap", "mode", "zero", "emit"} => (sx = 0 \/ sy = 0)
    /\ PairWritten => (PairFirst.value = 0 \/ PairSecond.value = 0)

\* the REL_Y event of a diagonal report was written: its second value is
\* not 0
C26_Witness ==
    /\ PairWritten
    /\ ev_frame = <<3, 3>>
    /\ PairFirst.value = 0
    /\ PairSecond.value # 0

\* the step of the fallback policy: on its scan choose_ordered returns the
\* empty string for a class exactly when the fallback takes no candidate
\* for it, and when its scan is the scan of the selection it changes neither
\* path and fails as the selection did
FallbackOnSameCatalog ==
    (policy # "fallback" /\ policy' = "fallback") =>
        /\ \A w \in BOOLEAN : \A pool \in {scan'.id, scan'.ppath} :
               (choose_ordered(pool, w, RulesOf(w), EmptyString).path = EmptyString)
                   <=> (\A i \in 1..Len(pool) : ~FallbackTakes(pool[i], w))
        /\ scan' = scan =>
               /\ tp_guess' = tp_guess
               /\ kbd_guess' = kbd_guess
               /\ ~ok
               /\ ~ok'

\* C27: on a catalog that is the same at both scans the fallback policy
\* resolves no class the selection left unresolved and does not succeed,
\* the test of the fallback being the test by which choose_ordered returns
\* the empty string.
C27_FallbackAddsNothingOnSameCatalog == [][FallbackOnSameCatalog]_vars

\* the fallback ran on the unchanged catalog, which holds a link with the
\* pointer suffix and no capability, and left the trackpoint without a path
C27_Witness ==
    /\ policy = "fallback"
    /\ fs_left = MaxFsChanges
    /\ ~ok
    /\ tp_guess = EmptyString
    /\ kbd_guess # EmptyString
    /\ \E i \in 1..Len(scan.id) :
          EndsWith(scan.id[i].base, SUFFIX_MOUSE) /\ ~scan.id[i].has_rel_xy

====
